---- MODULE Spec2Model ----
(***************************************************************************)
(* Status-reconciliation and anomaly-classification engine of the Cin7     *)
(* Core health review (modules/data_processing.py, modules/ui_filters.py), *)
(* the Load Data handler of app.py, the PDF builder's choice of sections   *)
(* and the API client's request and pagination loops                       *)
(* (modules/api_client.py).                                                *)
(*                                                                         *)
(* Python values are modelled with their type: a field of a record is      *)
(* Missing (no such key), None, a string (a sequence of character codes),  *)
(* or a number.  Status fields, which the code only tests for equality and *)
(* uses as dictionary keys, are TLA+ strings with the two sentinels        *)
(* MissingKey and NullValue.                                               *)
(***************************************************************************)
EXTENDS Integers, Sequences, FiniteSets, TLC

VARIABLES
    today,            \* date.today() of the run: [y, m, d]
    report_year,      \* report_year argument (0 stands for None / falsy)
    report_month,     \* report_month argument (0 stands for None / falsy)
    sales_data,       \* argument of process_sales_metrics
    purchases_data,   \* argument of process_purchase_metrics
    adjustment_details, \* argument of process_stock_adjustments
    availability_data,  \* argument of process_stock_availability
    products,         \* product master data passed to process_stock_availability
    pc,               \* position of the run
    metrics,          \* results by domain, as st.session_state.metrics
    err,              \* exception that ended the run, or "none"
    rerun,            \* result of the same call on the reordered pull
    sections,         \* section checkboxes ticked when Load Data was clicked
    sync_file,        \* whether a sync error report was uploaded
    at,               \* position of the Load Data handler in its load order
    session,          \* st.session_state: client, metrics (its keys), data_loaded, products
    pdf,              \* the last PDF built: sections_included and the sections rendered
    runs,             \* Load Data clicks so far
    server,           \* what an endpoint serves: response shape, records, Total, Limit;
                      \* or the summaries a list endpoint returned
    paging,           \* _paginate: page and all_records
    request,          \* _make_request: retry_count, the rate-limit waits made and the
                      \* responses received so far
    masters,          \* products, customers and suppliers given to process_data_hygiene
    returned          \* value returned by the client method or by process_data_hygiene

inputs ==
    <<today, report_year, report_month, sales_data, purchases_data,
      adjustment_details, availability_data, products>>

\* the Load Data handler and the PDF builder
load == <<sections, sync_file, at, session, pdf, runs>>

\* the API client
http == <<server, paging, request>>

\* state the classification functions leave alone
rest == <<load, http, masters, returned>>

\* state of the classification functions
classified == <<inputs, metrics, rerun>>

vars == <<inputs, pc, metrics, err, rerun, rest>>

-----------------------------------------------------------------------------
(* Python values *)

Missing == [k |-> "missing"]
None == [k |-> "none"]
Str(s) == [k |-> "str", s |-> s]
Num(n) == [k |-> "num", n |-> n]
List(items) == [k |-> "list", items |-> items]

MissingKey == "<missing>"
NullValue == "<null>"

\* dict.get(key): an absent key reads as None
Get(v) == IF v = Missing THEN None ELSE v

\* dict.get(key, default): the default replaces an absent key only
GetDefault(v, default) == IF v = Missing THEN default ELSE v

\* truth value of a Python value
Truthy(v) ==
    \/ v.k = "str" /\ v.s # <<>>
    \/ v.k = "num" /\ v.n # 0
    \/ v.k = "list" /\ v.items # <<>>

\* a or b
Or(a, b) == IF Truthy(a) THEN a ELSE b

Min(S) == CHOOSE x \in S : \A y \in S : x <= y
Max(S) == CHOOSE x \in S : \A y \in S : x >= y

\* str < str: lexicographic on character codes, a proper prefix is smaller
StrLess(a, b) ==
    LET n == IF Len(a) < Len(b) THEN Len(a) ELSE Len(b)
        diff == {i \in 1..n : a[i] # b[i]}
    IN  IF diff = {} THEN Len(a) < Len(b)
        ELSE a[Min(diff)] < b[Min(diff)]

\* str >= str
StrGeq(a, b) == ~StrLess(a, b)

-----------------------------------------------------------------------------
(* Calendar: datetime.date, timedelta, isoformat, fromisoformat *)

IsLeap(y) == (y % 4 = 0 /\ y % 100 # 0) \/ y % 400 = 0

DaysInMonth(y, m) ==
    IF m = 2 THEN (IF IsLeap(y) THEN 29 ELSE 28)
    ELSE IF m \in {4, 6, 9, 11} THEN 30 ELSE 31

\* date(y, m, d) raises ValueError outside these ranges
ValidDate(y, m, d) ==
    /\ y \in 1..9999
    /\ m \in 1..12
    /\ d \in 1..DaysInMonth(y, m)

\* number of days before 1 January of year y
DaysBeforeYear(y) ==
    (y - 1) * 365 + (y - 1) \div 4 - (y - 1) \div 100 + (y - 1) \div 400

\* number of days of year y before the first day of month m
RECURSIVE DaysBeforeMonth(_, _)
DaysBeforeMonth(y, m) ==
    IF m = 1 THEN 0 ELSE DaysBeforeMonth(y, m - 1) + DaysInMonth(y, m - 1)

\* date.toordinal(): 0001-01-01 is day 1
toordinal(y, m, d) == DaysBeforeYear(y) + DaysBeforeMonth(y, m) + d

YearOfOrdinal(n) ==
    CHOOSE y \in (n \div 366 + 1)..(n \div 365 + 1) :
        DaysBeforeYear(y) < n /\ n <= DaysBeforeYear(y + 1)

MonthOfYearDay(y, yday) ==
    CHOOSE m \in 1..12 :
        DaysBeforeMonth(y, m) < yday /\ yday <= DaysBeforeMonth(y, m) + DaysInMonth(y, m)

DateInMonth(y, m, yday) == [y |-> y, m |-> m, d |-> yday - DaysBeforeMonth(y, m)]
DateInYear(y, yday) == DateInMonth(y, MonthOfYearDay(y, yday), yday)
DateOfOrdinal(y, n) == DateInYear(y, n - DaysBeforeYear(y))

\* date.fromordinal(n): the date whose ordinal is n
fromordinal(n) == DateOfOrdinal(YearOfOrdinal(n), n)

\* date - timedelta(days=n)
MinusDays(dt, n) == fromordinal(toordinal(dt.y, dt.m, dt.d) - n)

\* the decimal digits of n, zero padded to width w
Digits(n, w) == [i \in 1..w |-> 48 + ((n \div (10 ^ (w - i))) % 10)]

Dash == 45
Colon == 58
CharT == 84
CharZ == 90
Plus == 43

\* date.isoformat() and strftime('%Y-%m-%d'): YYYY-MM-DD
isoformat(y, m, d) ==
    Digits(y, 4) \o <<Dash>> \o Digits(m, 2) \o <<Dash>> \o Digits(d, 2)

\* THH:MM:SS
TimeText(h, mi, s) ==
    <<CharT>> \o Digits(h, 2) \o <<Colon>> \o Digits(mi, 2)
              \o <<Colon>> \o Digits(s, 2)

UtcOffsetText == <<Plus, 48, 48, Colon, 48, 48>>

IsDigit(c) == c \in 48..57

\* the number written by the digits s[i..j]
RECURSIVE NumberAt(_, _, _)
NumberAt(s, i, j) ==
    IF j < i THEN 0 ELSE NumberAt(s, i, j - 1) * 10 + (s[j] - 48)

\* str.replace('Z', '+00:00')
RECURSIVE ReplaceZ(_)
ReplaceZ(s) ==
    IF s = <<>> THEN <<>>
    ELSE (IF Head(s) = CharZ THEN UtcOffsetText ELSE <<Head(s)>>)
         \o ReplaceZ(Tail(s))

HasT(s) == \E i \in 1..Len(s) : s[i] = CharT

\* s is written YYYY-MM-DD, YYYY-MM-DDTHH:MM:SS or YYYY-MM-DDTHH:MM:SS+00:00
IsoShape(s) ==
    /\ Len(s) \in {10, 19, 25}
    /\ \A p \in {1, 2, 3, 4, 6, 7, 9, 10} : IsDigit(s[p])
    /\ s[5] = Dash /\ s[8] = Dash
    /\ Len(s) > 10 =>
          /\ \A p \in {12, 13, 15, 16, 18, 19} : IsDigit(s[p])
          /\ s[11] = CharT /\ s[14] = Colon /\ s[17] = Colon
    /\ Len(s) > 19 => SubSeq(s, 20, 25) = UtcOffsetText

NoDate == [ok |-> FALSE]

\* datetime(y, m, d, h, mi, s, tzinfo): ValueError (NoDate) outside the ranges
MakeDatetime(y, m, d, h, mi, s, aware) ==
    IF ValidDate(y, m, d) /\ h \in 0..23 /\ mi \in 0..59 /\ s \in 0..59
    THEN [ok |-> TRUE, y |-> y, m |-> m, d |-> d,
          sec |-> h * 3600 + mi * 60 + s, aware |-> aware]
    ELSE NoDate

\* datetime.fromisoformat on the three shapes of IsoShape; any other text is
\* a ValueError (NoDate)
fromisoformat(s) ==
    IF ~IsoShape(s) THEN NoDate
    ELSE IF Len(s) = 10
    THEN MakeDatetime(NumberAt(s, 1, 4), NumberAt(s, 6, 7), NumberAt(s, 9, 10),
                      0, 0, 0, FALSE)
    ELSE MakeDatetime(NumberAt(s, 1, 4), NumberAt(s, 6, 7), NumberAt(s, 9, 10),
                      NumberAt(s, 12, 13), NumberAt(s, 15, 16), NumberAt(s, 18, 19),
                      Len(s) = 25)

\* parse_date raises TypeError on a truthy value that is no string
\* ('T' in date_string), which its except clause does not catch
parse_date_raises(v) == Truthy(v) /\ v.k # "str"

\* parse_date: None (NoDate) for a falsy value or an unparseable text
parse_date(v) ==
    IF ~Truthy(v) THEN NoDate
    ELSE fromisoformat(IF HasT(v.s) THEN ReplaceZ(v.s) ELSE v.s)

\* second of the day at which the run reads datetime.now()
NowSecond == 43200

SecondsPerDay == 86400

\* (datetime.now(tz) - dt).days
AgeDays(dt, tdy) ==
    ((toordinal(tdy.y, tdy.m, tdy.d) - toordinal(dt.y, dt.m, dt.d)) * SecondsPerDay
     + NowSecond - dt.sec) \div SecondsPerDay

-----------------------------------------------------------------------------
(* get_oldest_date *)

Raise(exc) == [k |-> "raise", exc |-> exc]
IsRaise(x) == x.k = "raise"

\* datetime <= datetime
DateLessOrEqual(a, b) ==
    \/ toordinal(a.y, a.m, a.d) < toordinal(b.y, b.m, b.d)
    \/ toordinal(a.y, a.m, a.d) = toordinal(b.y, b.m, b.d) /\ a.sec <= b.sec

\* datetime < datetime
DateLess(a, b) ==
    \/ toordinal(a.y, a.m, a.d) < toordinal(b.y, b.m, b.d)
    \/ toordinal(a.y, a.m, a.d) = toordinal(b.y, b.m, b.d) /\ a.sec < b.sec

\* the loop body once the date of record r is parsed: a comparison between a
\* naive and an aware datetime raises TypeError
OldestCompare(acc, r, date_obj) ==
    IF ~date_obj.ok THEN acc
    ELSE IF ~acc.found
    THEN [raised |-> FALSE, found |-> TRUE, date |-> date_obj, record |-> r]
    ELSE IF date_obj.aware # acc.date.aware THEN [acc EXCEPT !.raised = TRUE]
    ELSE IF DateLess(date_obj, acc.date)
    THEN [raised |-> FALSE, found |-> TRUE, date |-> date_obj, record |-> r]
    ELSE acc

\* the loop body for record r whose date field reads date_str
OldestRead(acc, r, date_str) ==
    IF acc.raised \/ ~Truthy(date_str) THEN acc
    ELSE IF parse_date_raises(date_str) THEN [acc EXCEPT !.raised = TRUE]
    ELSE OldestCompare(acc, r, parse_date(date_str))

\* One iteration of the loop of get_oldest_date over record r; acc is
\* [raised, found, date, record] (found: oldest_date is not None)
OldestStep(acc, r, date_field) == OldestRead(acc, r, Get(r[date_field]))

RECURSIVE OldestLoop(_, _, _, _)
OldestLoop(records, i, date_field, acc) ==
    IF i > Len(records) THEN acc
    ELSE OldestLoop(records, i + 1, date_field, OldestStep(acc, records[i], date_field))

OldestInit == [raised |-> FALSE, found |-> FALSE, date |-> NoDate, record |-> None]

\* what get_oldest_date returns after its loop
OldestResult(acc, tdy) ==
    IF acc.raised THEN Raise("TypeError")
    ELSE IF ~acc.found THEN None
    ELSE [k |-> "oldest",
          date |-> isoformat(acc.date.y, acc.date.m, acc.date.d),
          age_days |-> AgeDays(acc.date, tdy),
          record |-> acc.record]

\* get_oldest_date(records, date_field) read at the run date tdy: None, the
\* summary of the record with the oldest date, or a raised TypeError
get_oldest_date(records, date_field, tdy) ==
    OldestResult(OldestLoop(records, 1, date_field, OldestInit), tdy)

-----------------------------------------------------------------------------
(* Shared by process_sales_metrics and process_purchase_metrics *)

TerminalStatuses == {"COMPLETED", "VOIDED"}

\* number of records of an anomaly bucket kept for display (matching[:10])
DisplayCap == 10

\* cutoff = (today - timedelta(days=365)).isoformat()
ActivityDays == 365
DateText(dt) == isoformat(dt.y, dt.m, dt.d)
Cutoff(tdy) == DateText(MinusDays(tdy, ActivityDays))

\* the period start is read from the arguments only when both are truthy
UsesReportPeriod(ry, rm) == ry # 0 /\ rm # 0

\* date(report_year, report_month, 1) raises ValueError
PeriodRaises(ry, rm) == UsesReportPeriod(ry, rm) /\ ~ValidDate(ry, rm, 1)

\* period_start, when computing it does not raise
PeriodStart(ry, rm, tdy) ==
    IF UsesReportPeriod(ry, rm) THEN isoformat(ry, rm, 1)
    ELSE isoformat(tdy.y, tdy.m, 1)

Take(s, n) == SubSeq(s, 1, IF Len(s) < n THEN Len(s) ELSE n)

\* an entry whose count is taken from the displayed records
AnomalyBucketCapped(matching, date_field, tdy) ==
    [count |-> Len(Take(matching, DisplayCap)),
     oldest |-> get_oldest_date(matching, date_field, tdy),
     records |-> Take(matching, DisplayCap)]

\* an entry that keeps every matching record for display
AnomalyBucketUncapped(matching, date_field, tdy) ==
    [count |-> Len(matching),
     oldest |-> get_oldest_date(matching, date_field, tdy),
     records |-> matching]

\* one entry of metrics['anomalies']
AnomalyBucket(matching, date_field, tdy) ==
    [count |-> Len(matching),
     oldest |-> get_oldest_date(matching, date_field, tdy),
     records |-> Take(matching, DisplayCap)]

CountWhere(records, Test(_)) == Len(SelectSeq(records, Test))

\* a filter that forgets the VOIDED status
NotTerminalOnlyCompleted(r) == r.Status # "COMPLETED"

NotTerminal(r) == r.Status \notin TerminalStatuses

\* the records at the positions idx, in list order
SelectAt(records, idx) ==
    [p \in 1..Cardinality(idx) |->
        records[CHOOSE i \in idx : Cardinality({j \in idx : j <= i}) = p]]

\* by_status[status]: the records whose status key is status, in list order;
\* keys[i] is the status key of records[i]
GroupBy(records, keys, status) ==
    SelectAt(records, {i \in 1..Len(records) : keys[i] = status})
StatusKeys(keys) == {keys[i] : i \in 1..Len(keys)}

\* get_oldest_date of the group of each status key
GroupOldest(active, keys, date_field, tdy) ==
    [st \in StatusKeys(keys) |->
        get_oldest_date(GroupBy(active, keys, st), date_field, tdy)]

\* get_oldest_date raises for the group of some status
GroupOldestRaises(oldest_of) == \E st \in DOMAIN oldest_of : IsRaise(oldest_of[st])

\* the statuses that get an entry in metrics['oldest_by_status']
StatusesWithOldest(oldest_of) == {st \in DOMAIN oldest_of : oldest_of[st] # None}

-----------------------------------------------------------------------------
(* process_sales_metrics *)

\* _sale_date(s): s.get('SaleOrderDate') or s.get('OrderDate') or ''
sale_date(s) == Or(Or(Get(s.SaleOrderDate), Get(s.OrderDate)), Str(<<>>))

\* the comparison _sale_date(s) >= cutoff raises TypeError on a number
SaleFilterRaises(sales) ==
    \E i \in 1..Len(sales) : NotTerminal(sales[i]) /\ sale_date(sales[i]).k # "str"

\* a filter that drops the sales whose date text equals the cutoff
SaleIsActiveAfterCutoff(s, cutoff) == NotTerminal(s) /\ StrLess(cutoff, sale_date(s).s)

\* the condition of the active_sales comprehension
SaleIsActive(s, cutoff) == NotTerminal(s) /\ StrGeq(sale_date(s).s, cutoff)

ActiveSales(sales, tdy) ==
    SelectSeq(sales, LAMBDA s : SaleIsActive(s, Cutoff(tdy)))

\* predicates of the dashboard status counts
IsDraftQuote(s) == s.QuoteStatus = "DRAFT"
IsPendingOrder(s) == s.OrderStatus = "DRAFT"
IsBackordered(s) == s.Status = "BACKORDERED"
IsAwaitingFulfilment(s) ==
    /\ s.OrderStatus = "AUTHORISED"
    /\ s.CombinedShippingStatus \in {"NOT SHIPPED", "PARTIALLY SHIPPED"}
IsOrderToBill(s) ==
    /\ s.OrderStatus = "AUTHORISED"
    /\ s.CombinedInvoiceStatus \in {"NOT AVAILABLE", "DRAFT"}
IsAuthorisedQuoteNoSo(s) ==
    /\ s.QuoteStatus = "AUTHORISED"
    /\ s.OrderStatus = "NOT AVAILABLE"

SalesStatusCounts(active) ==
    [draft_quotes |-> CountWhere(active, IsDraftQuote),
     pending_orders |-> CountWhere(active, IsPendingOrder),
     backordered |-> CountWhere(active, IsBackordered),
     awaiting_fulfilment |-> CountWhere(active, IsAwaitingFulfilment),
     orders_to_bill |-> CountWhere(active, IsOrderToBill),
     authorised_quotes_no_so |-> CountWhere(active, IsAuthorisedQuoteNoSo)]

\* sale.get('OrderStatus', sale.get('Status', 'UNKNOWN'))
SaleStatusKey(s) ==
    IF s.OrderStatus # MissingKey THEN s.OrderStatus
    ELSE IF s.Status # MissingKey THEN s.Status
    ELSE "UNKNOWN"

\* 'SaleOrderDate' if any(s.get('SaleOrderDate') for s in active_sales[:5])
\* else 'OrderDate'
DateFieldProbe == 5
SalesDateField(active) ==
    IF \E i \in 1..Len(Take(active, DateFieldProbe)) : Truthy(Get(active[i].SaleOrderDate))
    THEN "SaleOrderDate" ELSE "OrderDate"

\* one entry of metrics['oldest_by_status'] of the sales
SaleOldestEntry(oldest) ==
    [order_number |-> oldest.record.OrderNumber,
     date |-> oldest.date,
     age_days |-> oldest.age_days,
     customer |-> oldest.record.Customer]

\* metrics['oldest_by_status'] of the sales: one entry per status whose
\* group has an oldest record
SalesOldestByStatus(oldest_of) ==
    [st \in StatusesWithOldest(oldest_of) |-> SaleOldestEntry(oldest_of[st])]

\* predicates of the sales anomaly buckets
IsAuthorisedPriorNotFulfilled(s, period_start) ==
    /\ s.OrderStatus = "AUTHORISED"
    /\ s.FulFilmentStatus \in {"NOT FULFILLED", "PARTIALLY FULFILLED"}
    /\ StrLess(sale_date(s).s, period_start)
\* a fulfilled test that does not read the invoice status
IsFulfilledAnyInvoice(s) == s.FulFilmentStatus = "FULFILLED"
IsFulfilledNotInvoiced(s) ==
    /\ s.FulFilmentStatus = "FULFILLED"
    /\ s.CombinedInvoiceStatus \in {"NOT AVAILABLE", "DRAFT"}
IsInvoicedNotFulfilled(s) ==
    /\ s.CombinedInvoiceStatus \in {"AUTHORISED", "PAID"}
    /\ s.FulFilmentStatus \in {"NOT FULFILLED", "PARTIALLY FULFILLED"}

SalesAnomalies(active, date_field, period_start, tdy) ==
    [authorised_prior_not_fulfilled |->
        AnomalyBucket(SelectSeq(active,
                          LAMBDA s : IsAuthorisedPriorNotFulfilled(s, period_start)),
                      date_field, tdy),
     fulfilled_not_invoiced |->
        AnomalyBucket(SelectSeq(active, IsFulfilledNotInvoiced), date_field, tdy),
     invoiced_not_fulfilled |->
        AnomalyBucket(SelectSeq(active, IsInvoicedNotFulfilled), date_field, tdy)]

SalesAnomalyNames ==
    {"authorised_prior_not_fulfilled", "fulfilled_not_invoiced",
     "invoiced_not_fulfilled"}

\* the dictionary process_sales_metrics returns, or the TypeError of
\* get_oldest_date on an anomaly bucket
SalesMetrics(sales, active, oldest_of, anomalies) ==
    IF \E b \in SalesAnomalyNames : IsRaise(anomalies[b].oldest)
    THEN Raise("TypeError")
    ELSE [k |-> "metrics",
          status_counts |-> SalesStatusCounts(active),
          oldest_by_status |-> SalesOldestByStatus(oldest_of),
          anomalies |-> anomalies,
          summary |->
              [total_sales |-> Len(sales),
               active_sales |-> Len(active),
               unique_statuses |-> Cardinality(DOMAIN oldest_of),
               has_anomalies |-> \E b \in SalesAnomalyNames : anomalies[b].count > 0]]

\* process_sales_metrics from the oldest-by-status loop on
SalesFromGroups(sales, active, date_field, oldest_of, ry, rm, tdy) ==
    IF GroupOldestRaises(oldest_of) THEN Raise("TypeError")
    ELSE IF PeriodRaises(ry, rm) THEN Raise("ValueError")
    ELSE SalesMetrics(sales, active, oldest_of,
                      SalesAnomalies(active, date_field, PeriodStart(ry, rm, tdy), tdy))

\* process_sales_metrics once the date field is chosen
SalesFromField(sales, active, date_field, ry, rm, tdy) ==
    SalesFromGroups(sales, active, date_field,
                    GroupOldest(active,
                                [i \in 1..Len(active) |-> SaleStatusKey(active[i])],
                                date_field, tdy),
                    ry, rm, tdy)

\* process_sales_metrics once the active sales are selected
SalesFromActive(sales, active, ry, rm, tdy) ==
    SalesFromField(sales, active, SalesDateField(active), ry, rm, tdy)

\* process_sales_metrics(sales_data, None, ry, rm) run on the date tdy: the
\* metrics dictionary, or the exception the call ends with
process_sales_metrics(sales, ry, rm, tdy) ==
    IF SaleFilterRaises(sales) THEN Raise("TypeError")
    ELSE SalesFromActive(sales, ActiveSales(sales, tdy), ry, rm, tdy)

-----------------------------------------------------------------------------
(* process_purchase_metrics *)

\* (p.get('OrderDate') or '')
purchase_date(p) == Or(Get(p.OrderDate), Str(<<>>))

\* the comparison (p.get('OrderDate') or '') >= cutoff raises TypeError on a number
PurchaseFilterRaises(purchases) ==
    \E i \in 1..Len(purchases) :
        NotTerminal(purchases[i]) /\ purchase_date(purchases[i]).k # "str"

\* the condition of the active_purchases comprehension
PurchaseIsActive(p, cutoff) == NotTerminal(p) /\ StrGeq(purchase_date(p).s, cutoff)

ActivePurchases(purchases, tdy) ==
    SelectSeq(purchases, LAMBDA p : PurchaseIsActive(p, Cutoff(tdy)))

\* predicates of the dashboard status counts
IsDraftPurchase(p) == p.Status = "DRAFT"
IsAwaitingApproval(p) == p.Status = "ORDERING"
IsBilling(p) == p.OrderStatus = "AUTHORISED" /\ p.InvoiceStatus = "DRAFT"
IsAwaitingDelivery(p) ==
    /\ p.OrderStatus = "AUTHORISED"
    /\ p.CombinedReceivingStatus \in {"NOT RECEIVED", "PARTIALLY RECEIVED"}

PurchaseStatusCounts(active) ==
    [draft |-> CountWhere(active, IsDraftPurchase),
     awaiting_approval |-> CountWhere(active, IsAwaitingApproval),
     billing |-> CountWhere(active, IsBilling),
     awaiting_delivery |-> CountWhere(active, IsAwaitingDelivery)]

\* po.get('OrderStatus', 'UNKNOWN')
PurchaseStatusKey(p) ==
    IF p.OrderStatus # MissingKey THEN p.OrderStatus ELSE "UNKNOWN"

\* one entry of metrics['oldest_by_status'] of the purchases
PurchaseOldestEntry(oldest) ==
    [order_number |-> oldest.record.OrderNumber,
     date |-> oldest.date,
     age_days |-> oldest.age_days,
     supplier |-> oldest.record.Supplier]

PurchaseOldestByStatus(oldest_of) ==
    [st \in StatusesWithOldest(oldest_of) |-> PurchaseOldestEntry(oldest_of[st])]

\* predicates of the purchase anomaly buckets, over the authorised orders
IsAuthorised(p) == p.OrderStatus = "AUTHORISED"
NotInvoiced(p) == p.CombinedInvoiceStatus \in {"NOT INVOICED", "PARTIALLY INVOICED"}
NotReceived(p) == p.CombinedReceivingStatus \in {"NOT RECEIVED", "PARTIALLY RECEIVED"}
\* a prior test that takes in the first day of the period
IsPriorOrStart(p, period_start) == ~StrLess(period_start, purchase_date(p).s)
IsPrior(p, period_start) == StrLess(purchase_date(p).s, period_start)
\* a current test that leaves out the first day of the period
IsCurrentAfterStart(p, period_start) == StrLess(period_start, purchase_date(p).s)
IsCurrent(p, period_start) == StrGeq(purchase_date(p).s, period_start)
IsPriorNotInvoiced(p, period_start) == NotInvoiced(p) /\ IsPrior(p, period_start)
IsPriorNotReceived(p, period_start) == NotReceived(p) /\ IsPrior(p, period_start)
IsCurrentNotInvoiced(p, period_start) == NotInvoiced(p) /\ IsCurrent(p, period_start)
IsCurrentNotReceived(p, period_start) == NotReceived(p) /\ IsCurrent(p, period_start)
IsFullyInvoicedNotReceived(p) ==
    /\ p.CombinedInvoiceStatus \in {"INVOICED", "INVOICED / CREDITED"}
    /\ NotReceived(p)
IsFullyReceivedNotInvoiced(p) ==
    /\ p.CombinedReceivingStatus = "FULLY RECEIVED"
    /\ NotInvoiced(p)

\* the buckets with the two cross anomalies kept to the orders before the period
PurchaseAnomaliesPriorOnly(authorised, period_start, tdy) ==
    [prior_not_invoiced |->
        AnomalyBucket(SelectSeq(authorised,
                          LAMBDA p : IsPriorNotInvoiced(p, period_start)),
                      "OrderDate", tdy),
     prior_not_received |->
        AnomalyBucket(SelectSeq(authorised,
                          LAMBDA p : IsPriorNotReceived(p, period_start)),
                      "OrderDate", tdy),
     current_not_invoiced |->
        AnomalyBucket(SelectSeq(authorised,
                          LAMBDA p : IsCurrentNotInvoiced(p, period_start)),
                      "OrderDate", tdy),
     current_not_received |->
        AnomalyBucket(SelectSeq(authorised,
                          LAMBDA p : IsCurrentNotReceived(p, period_start)),
                      "OrderDate", tdy),
     fully_invoiced_not_received |->
        AnomalyBucket(SelectSeq(authorised,
                          LAMBDA p : IsFullyInvoicedNotReceived(p)
                                        /\ IsPrior(p, period_start)),
                      "OrderDate", tdy),
     fully_received_not_invoiced |->
        AnomalyBucket(SelectSeq(authorised,
                          LAMBDA p : IsFullyReceivedNotInvoiced(p)
                                        /\ IsPrior(p, period_start)),
                      "OrderDate", tdy)]

PurchaseAnomalies(authorised, period_start, tdy) ==
    [prior_not_invoiced |->
        AnomalyBucket(SelectSeq(authorised,
                          LAMBDA p : IsPriorNotInvoiced(p, period_start)),
                      "OrderDate", tdy),
     prior_not_received |->
        AnomalyBucket(SelectSeq(authorised,
                          LAMBDA p : IsPriorNotReceived(p, period_start)),
                      "OrderDate", tdy),
     current_not_invoiced |->
        AnomalyBucket(SelectSeq(authorised,
                          LAMBDA p : IsCurrentNotInvoiced(p, period_start)),
                      "OrderDate", tdy),
     current_not_received |->
        AnomalyBucket(SelectSeq(authorised,
                          LAMBDA p : IsCurrentNotReceived(p, period_start)),
                      "OrderDate", tdy),
     fully_invoiced_not_received |->
        AnomalyBucket(SelectSeq(authorised, IsFullyInvoicedNotReceived),
                      "OrderDate", tdy),
     fully_received_not_invoiced |->
        AnomalyBucket(SelectSeq(authorised, IsFullyReceivedNotInvoiced),
                      "OrderDate", tdy)]

PurchaseAnomalyNames ==
    {"prior_not_invoiced", "prior_not_received", "current_not_invoiced",
     "current_not_received", "fully_invoiced_not_received",
     "fully_received_not_invoiced"}

\* the dictionary process_purchase_metrics returns, or the TypeError of
\* get_oldest_date on an anomaly bucket
PurchaseMetrics(purchases, active, oldest_of, anomalies) ==
    IF \E b \in PurchaseAnomalyNames : IsRaise(anomalies[b].oldest)
    THEN Raise("TypeError")
    ELSE [k |-> "metrics",
          status_counts |-> PurchaseStatusCounts(active),
          oldest_by_status |-> PurchaseOldestByStatus(oldest_of),
          anomalies |-> anomalies,
          summary |->
              [total_purchases |-> Len(purchases),
               active_purchases |-> Len(active),
               unique_statuses |-> Cardinality(DOMAIN oldest_of),
               has_anomalies |->
                   \E b \in PurchaseAnomalyNames : anomalies[b].count > 0]]

\* process_purchase_metrics from the oldest-by-status loop on
PurchasesFromGroups(purchases, active, oldest_of, ry, rm, tdy) ==
    IF GroupOldestRaises(oldest_of) THEN Raise("TypeError")
    ELSE IF PeriodRaises(ry, rm) THEN Raise("ValueError")
    ELSE PurchaseMetrics(purchases, active, oldest_of,
                         PurchaseAnomalies(SelectSeq(active, IsAuthorised),
                                           PeriodStart(ry, rm, tdy), tdy))

\* process_purchase_metrics once the active purchases are selected
PurchasesFromActive(purchases, active, ry, rm, tdy) ==
    PurchasesFromGroups(purchases, active,
                        GroupOldest(active,
                                    [i \in 1..Len(active) |-> PurchaseStatusKey(active[i])],
                                    "OrderDate", tdy),
                        ry, rm, tdy)

\* process_purchase_metrics(purchases_data, None, ry, rm) run on the date tdy
process_purchase_metrics(purchases, ry, rm, tdy) ==
    IF PurchaseFilterRaises(purchases) THEN Raise("TypeError")
    ELSE PurchasesFromActive(purchases, ActivePurchases(purchases, tdy), ry, rm, tdy)

-----------------------------------------------------------------------------
(* process_stock_adjustments *)

Abs(n) == IF n < 0 THEN 0 - n ELSE n

\* character codes of a text constant
Unknown == <<85, 110, 107, 110, 111, 119, 110>>
Packaging == <<112, 97, 99, 107, 97, 103, 105, 110, 103>>
Consumable == <<99, 111, 110, 115, 117, 109, 97, 98, 108, 101>>

\* str.lower() on ASCII text
lower(s) == [i \in 1..Len(s) |-> IF s[i] \in 65..90 THEN s[i] + 32 ELSE s[i]]

\* needle in hay
Contains(hay, needle) ==
    \E i \in 1..(Len(hay) - Len(needle) + 1) :
        SubSeq(hay, i, i + Len(needle) - 1) = needle

\* detail.get('NewStockLines') or detail.get('Lines', [])
DetailLines(detail) == Or(Get(detail.NewStockLines), GetDefault(detail.Lines, List(<<>>)))

\* line.get('Quantity', 0)
LineQuantity(line) == GetDefault(line.Quantity, Num(0))

\* line.get('UnitCost') or line.get('Cost', 0)
LineCost(line) == Or(Get(line.UnitCost), GetDefault(line.Cost, Num(0)))

\* qty * cost, abs(qty) or abs(total_cost) raises TypeError unless both are
\* numbers
LineRaises(line) == LineQuantity(line).k # "num" \/ LineCost(line).k # "num"

\* the entry appended to all_lines
LineEntry(detail, line) ==
    [sku |-> IF line.SKU = MissingKey THEN "Unknown" ELSE line.SKU,
     name |-> GetDefault(line.Name, Str(Unknown)),
     location |-> IF detail.Location = MissingKey THEN "Unknown" ELSE detail.Location,
     quantity |-> LineQuantity(line).n,
     cost |-> LineCost(line).n,
     total_cost |-> LineQuantity(line).n * LineCost(line).n,
     date |-> IF detail.Date = MissingKey THEN "Unknown" ELSE detail.Date]

\* the entries of the lines of one detail
DetailEntries(detail, lines) == [i \in 1..Len(lines) |-> LineEntry(detail, lines[i])]

\* all_lines after the loop over adjustment_details
RECURSIVE AllLines(_)
AllLines(details) ==
    IF details = <<>> THEN <<>>
    ELSE DetailEntries(Head(details), DetailLines(Head(details)).items)
         \o AllLines(Tail(details))

\* iterating the lines of a detail raises TypeError when they are no list,
\* and so does the arithmetic on a line
AdjustmentLoopRaises(details) ==
    \E d \in 1..Len(details) :
        \/ DetailLines(details[d]).k # "list"
        \/ \E i \in 1..Len(DetailLines(details[d]).items) :
              LineRaises(DetailLines(details[d]).items[i])

\* line['name'].lower() raises AttributeError unless the name is a string
NameRaises(all_lines) == \E i \in 1..Len(all_lines) : all_lines[i].name.k # "str"

RECURSIVE SumOver(_, _)
SumOver(f, S) ==
    IF S = {} THEN 0
    ELSE LET x == CHOOSE y \in S : TRUE
         IN  f[x] + SumOver(f, S \ {x})

\* the positions of the lines of a location
LinesAt(all_lines, loc) == {i \in 1..Len(all_lines) : all_lines[i].location = loc}

\* metrics['by_location'] of the adjustments
AdjustmentsByLocation(all_lines) ==
    [loc \in {all_lines[i].location : i \in 1..Len(all_lines)} |->
        [qty_total |->
            SumOver([i \in 1..Len(all_lines) |-> Abs(all_lines[i].quantity)],
                    LinesAt(all_lines, loc)),
         cost_total |->
            SumOver([i \in 1..Len(all_lines) |-> Abs(all_lines[i].total_cost)],
                    LinesAt(all_lines, loc)),
         count |-> Cardinality(LinesAt(all_lines, loc))]]

\* a filter that compares the name as written
IsReportableAsWritten(line) ==
    /\ ~Contains(line.name.s, Packaging)
    /\ ~Contains(line.name.s, Consumable)

\* the condition of the filtered_lines comprehension
IsReportable(line) ==
    /\ ~Contains(lower(line.name.s), Packaging)
    /\ ~Contains(lower(line.name.s), Consumable)

\* sorted(lines, key=..., reverse=True), keys[i] being the key of lines[i]:
\* largest key first, lines of equal key in their order in lines
SortedDescending(lines, keys) ==
    [p \in 1..Len(lines) |->
        lines[CHOOSE i \in 1..Len(lines) :
                  p = 1 + Cardinality({j \in 1..Len(lines) :
                                          \/ keys[j] > keys[i]
                                          \/ keys[j] = keys[i] /\ j < i})]]

\* length of the top lists
TopCap == 5

\* a ranking that keeps every line
TopOfAll(lines, keys) == SortedDescending(lines, keys)

\* sorted(...)[:5]
TopOf(lines, keys) == Take(SortedDescending(lines, keys), TopCap)

\* key=lambda x: x['quantity'] and key=lambda x: abs(x['quantity'])
TopByQuantity(lines) == TopOf(lines, [i \in 1..Len(lines) |-> lines[i].quantity])
TopByAbsQuantity(lines) == TopOf(lines, [i \in 1..Len(lines) |-> Abs(lines[i].quantity)])

\* key=lambda x: x['total_cost'] and key=lambda x: abs(x['total_cost'])
TopByCost(lines) == TopOf(lines, [i \in 1..Len(lines) |-> lines[i].total_cost])
TopByAbsCost(lines) == TopOf(lines, [i \in 1..Len(lines) |-> Abs(lines[i].total_cost)])

TopQtyIn(filtered) == TopByQuantity(SelectSeq(filtered, LAMBDA l : l.quantity > 0))
TopQtyOut(filtered) == TopByAbsQuantity(SelectSeq(filtered, LAMBDA l : l.quantity < 0))
TopCostIn(filtered) == TopByCost(SelectSeq(filtered, LAMBDA l : l.total_cost > 0))
TopCostOut(filtered) == TopByAbsCost(SelectSeq(filtered, LAMBDA l : l.total_cost < 0))

\* the dictionary process_stock_adjustments returns
AdjustmentMetrics(total, all_lines, filtered, by_location) ==
    [k |-> "metrics",
     total_adjustments |-> total,
     by_location |-> by_location,
     top_qty_in |-> TopQtyIn(filtered),
     top_qty_out |-> TopQtyOut(filtered),
     top_cost_in |-> TopCostIn(filtered),
     top_cost_out |-> TopCostOut(filtered),
     summary |->
         [total_cost_impact |->
              SumOver([loc \in DOMAIN by_location |-> by_location[loc].cost_total],
                      DOMAIN by_location),
          total_qty_impact |->
              SumOver([loc \in DOMAIN by_location |-> by_location[loc].qty_total],
                      DOMAIN by_location),
          locations_affected |-> Cardinality(DOMAIN by_location),
          total_line_items |-> Len(all_lines)]]

\* process_stock_adjustments once all_lines is built
AdjustmentsFromLines(total, all_lines) ==
    IF NameRaises(all_lines) THEN Raise("AttributeError")
    ELSE AdjustmentMetrics(total, all_lines, SelectSeq(all_lines, IsReportable),
                           AdjustmentsByLocation(all_lines))

\* process_stock_adjustments(adjustments, adjustment_details), where
\* adjustments holds one summary per detail
process_stock_adjustments(details) ==
    IF AdjustmentLoopRaises(details) THEN Raise("TypeError")
    ELSE AdjustmentsFromLines(Len(details), AllLines(details))

-----------------------------------------------------------------------------
(* process_stock_availability *)

\* product.get('AverageCost', product.get('DefaultCost', 0))
ProductCost(product) ==
    GetDefault(product.AverageCost, GetDefault(product.DefaultCost, Num(0)))

\* sku_to_cost: the cost of the last product of each truthy SKU
SkuToCost(prods) ==
    [sku \in {prods[i].SKU : i \in 1..Len(prods)} \ {MissingKey, ""} |->
        ProductCost(prods[Max({i \in 1..Len(prods) : prods[i].SKU = sku})])]

\* item.get('SKU', '')
ItemSku(item) == IF item.SKU = MissingKey THEN "" ELSE item.SKU

\* sku_to_cost.get(sku, 0) if sku_to_cost else 0
ItemCost(item, sku_to_cost) ==
    IF ItemSku(item) \in DOMAIN sku_to_cost THEN sku_to_cost[ItemSku(item)] ELSE Num(0)

OnHand(item) == GetDefault(item.OnHand, Num(0))
Allocated(item) == GetDefault(item.Allocated, Num(0))
Available(item) == GetDefault(item.Available, Num(0))
ItemLocation(item) == IF item.Location = MissingKey THEN "Unknown" ELSE item.Location

\* the arithmetic on an item raises TypeError unless all its operands are
\* numbers
ItemRaises(item, sku_to_cost) ==
    \/ OnHand(item).k # "num"
    \/ Allocated(item).k # "num"
    \/ Available(item).k # "num"
    \/ ItemCost(item, sku_to_cost).k # "num"

\* a test that wants both quantities negative
IsNegativeStockBoth(item) == OnHand(item).n < 0 /\ Available(item).n < 0
\* on_hand < 0 or available < 0
IsNegativeStock(item) == OnHand(item).n < 0 \/ Available(item).n < 0

\* neg_item
NegativeItem(item) ==
    [sku |-> IF item.SKU = MissingKey THEN "Unknown" ELSE item.SKU,
     name |-> GetDefault(item.Name, Str(Unknown)),
     location |-> ItemLocation(item),
     on_hand |-> OnHand(item).n,
     available |-> Available(item).n]

NegativeItems(items) ==
    [i \in 1..Len(items) |-> NegativeItem(items[i])]

ItemsAt(items, loc) == {i \in 1..Len(items) : ItemLocation(items[i]) = loc}

\* metrics['by_location'] of the availability
AvailabilityByLocation(items, sku_to_cost) ==
    [loc \in {ItemLocation(items[i]) : i \in 1..Len(items)} |->
        [total_on_hand |->
            SumOver([i \in 1..Len(items) |-> OnHand(items[i]).n], ItemsAt(items, loc)),
         total_allocated |->
            SumOver([i \in 1..Len(items) |-> Allocated(items[i]).n], ItemsAt(items, loc)),
         total_available |->
            SumOver([i \in 1..Len(items) |-> Available(items[i]).n], ItemsAt(items, loc)),
         total_value |->
            SumOver([i \in 1..Len(items) |->
                        OnHand(items[i]).n * ItemCost(items[i], sku_to_cost).n],
                    ItemsAt(items, loc)),
         product_count |-> Cardinality(ItemsAt(items, loc)),
         negative_stock_items |->
            NegativeItems(SelectSeq(items,
                LAMBDA item : ItemLocation(item) = loc /\ IsNegativeStock(item)))]]

\* the dictionary process_stock_availability returns
AvailabilityMetrics(by_location, negative_stock) ==
    [k |-> "metrics",
     by_location |-> by_location,
     negative_stock |-> negative_stock,
     summary |->
         [total_locations |-> Cardinality(DOMAIN by_location),
          total_negative_items |-> Len(negative_stock),
          has_negative_stock |-> Len(negative_stock) > 0,
          total_stock_value |->
              SumOver([loc \in DOMAIN by_location |-> by_location[loc].total_value],
                      DOMAIN by_location)]]

\* process_stock_availability once sku_to_cost is built
AvailabilityFromCosts(items, sku_to_cost) ==
    IF \E i \in 1..Len(items) : ItemRaises(items[i], sku_to_cost)
    THEN Raise("TypeError")
    ELSE AvailabilityMetrics(AvailabilityByLocation(items, sku_to_cost),
                             NegativeItems(SelectSeq(items, IsNegativeStock)))

\* process_stock_availability(availability_data, locations, products)
process_stock_availability(items, prods) ==
    AvailabilityFromCosts(items, SkuToCost(prods))

-----------------------------------------------------------------------------
(* Inputs of the classification runs *)

Date(y, m, d) == [y |-> y, m |-> m, d |-> d]

\* run dates: the activity cutoff of the first crosses 29 February 2024, the
\* cutoffs of the other two are 2024-01-10 and 2024-01-11
Todays == {Date(2024, 3, 1), Date(2025, 1, 9), Date(2025, 1, 10)}

\* (report_year, report_month); 0 stands for an argument left out
Periods ==
    {<<0, 0>>, <<2024, 2>>, <<2025, 1>>, <<2024, 0>>, <<0, 2>>,
     <<2024, 13>>, <<2024, -1>>}

\* longest list drawn from the core records
MaxLen == 2

RECURSIVE SeqsUpTo(_, _)
SeqsUpTo(S, n) ==
    IF n = 0 THEN {<<>>}
    ELSE LET shorter == SeqsUpTo(S, n - 1)
         IN  shorter \cup {Append(s, x) : s \in {q \in shorter : Len(q) = n - 1}, x \in S}

\* OrderNumber is the external identity of a record: its position in the pull
Numbered(list) == [i \in 1..Len(list) |-> [list[i] EXCEPT !.OrderNumber = i]]

\* date texts
Day(y, m, d) == Str(isoformat(y, m, d))
DayTime(y, m, d, h, mi, s) == Str(isoformat(y, m, d) \o TimeText(h, mi, s))
DayTimeZ(y, m, d, h, mi, s) == Str(isoformat(y, m, d) \o TimeText(h, mi, s) \o <<CharZ>>)
NotADate == Str(<<78, 47, 65>>)

\* status fields of a sale: <<Status, QuoteStatus, OrderStatus, FulFilmentStatus,
\* CombinedInvoiceStatus, CombinedShippingStatus>>
SaleProfiles ==
    {<<MissingKey, MissingKey, "AUTHORISED", "FULFILLED", "NOT AVAILABLE", "SHIPPED">>,
     <<MissingKey, MissingKey, "AUTHORISED", "FULFILLED", "AUTHORISED", "SHIPPED">>,
     <<"COMPLETED", "DRAFT", "AUTHORISED", "FULFILLED", "NOT AVAILABLE", "NOT SHIPPED">>,
     <<"VOIDED", "AUTHORISED", "NOT AVAILABLE", "NOT FULFILLED", "PAID", "NOT SHIPPED">>,
     <<"BACKORDERED", NullValue, "AUTHORISED", "NOT FULFILLED", "PAID", "NOT SHIPPED">>,
     <<"ORDERED", "AUTHORISED", "AUTHORISED", "PARTIALLY FULFILLED", "DRAFT",
       "PARTIALLY SHIPPED">>,
     <<"DRAFT", "DRAFT", MissingKey, MissingKey, MissingKey, MissingKey>>,
     <<"ESTIMATED", "AUTHORISED", "NOT AVAILABLE", NullValue, "NOT AVAILABLE",
       "NOT AVAILABLE">>,
     <<MissingKey, MissingKey, "DRAFT", "NOT FULFILLED", "NOT AVAILABLE", "NOT SHIPPED">>}

\* <<SaleOrderDate, OrderDate>> of a sale
SaleDates ==
    {<<Missing, Day(2024, 1, 10)>>,
     <<Missing, Day(2024, 1, 9)>>,
     <<Day(2024, 1, 11), Missing>>,
     <<DayTime(2024, 1, 10, 0, 0, 0), Day(2023, 1, 1)>>,
     <<DayTimeZ(2024, 1, 9, 23, 59, 59), None>>,
     <<DayTimeZ(2024, 1, 10, 12, 0, 0), Missing>>,
     <<Missing, DayTime(2024, 1, 9, 23, 59, 59)>>,
     <<None, Day(2023, 3, 2)>>,
     <<Str(<<>>), Day(2023, 3, 1)>>,
     <<Missing, Day(2024, 1, 31)>>,
     <<Day(2024, 2, 1), Day(2024, 1, 1)>>,
     <<Day(2024, 12, 31), Missing>>,
     <<Missing, DayTime(2025, 1, 1, 8, 30, 0)>>,
     <<Missing, Missing>>,
     <<NotADate, Missing>>,
     <<Num(20240110), Missing>>}

Sale(prof, dates) ==
    [OrderNumber |-> 0, Customer |-> "Acme",
     Status |-> prof[1], QuoteStatus |-> prof[2], OrderStatus |-> prof[3],
     FulFilmentStatus |-> prof[4], CombinedInvoiceStatus |-> prof[5],
     CombinedShippingStatus |-> prof[6],
     SaleOrderDate |-> dates[1], OrderDate |-> dates[2]]

SaleRecords == {Sale(prof, dates) : prof \in SaleProfiles, dates \in SaleDates}

\* the sales of end-to-end scenario 1
SaleA ==
    Sale(<<MissingKey, MissingKey, "AUTHORISED", "FULFILLED", "NOT AVAILABLE", "SHIPPED">>,
         <<Missing, Day(2024, 1, 10)>>)
SaleB ==
    Sale(<<MissingKey, MissingKey, "AUTHORISED", "FULFILLED", "AUTHORISED", "SHIPPED">>,
         <<Missing, Day(2024, 1, 10)>>)
SaleC ==
    Sale(<<"COMPLETED", "DRAFT", "AUTHORISED", "FULFILLED", "NOT AVAILABLE", "NOT SHIPPED">>,
         <<Missing, Day(2024, 1, 10)>>)
Scenario1 == <<SaleA, SaleB, SaleC>>

\* records of the lists longer than one
SaleCore ==
    {SaleA, SaleB, SaleC,
     Sale(<<"BACKORDERED", NullValue, "AUTHORISED", "NOT FULFILLED", "PAID", "NOT SHIPPED">>,
          <<Day(2024, 1, 11), Missing>>),
     Sale(<<"DRAFT", "DRAFT", MissingKey, MissingKey, MissingKey, MissingKey>>,
          <<Missing, Day(2024, 1, 31)>>),
     Sale(<<MissingKey, MissingKey, "AUTHORISED", "FULFILLED", "NOT AVAILABLE", "SHIPPED">>,
          <<Missing, Missing>>),
     Sale(<<MissingKey, MissingKey, "AUTHORISED", "FULFILLED", "NOT AVAILABLE", "SHIPPED">>,
          <<Missing, Day(2024, 1, 9)>>)}

SaleLists ==
    {Numbered(l) : l \in {<<r>> : r \in SaleRecords} \cup SeqsUpTo(SaleCore, MaxLen)
                         \cup {Scenario1}}


\* status fields of a purchase: <<Status, OrderStatus, InvoiceStatus,
\* CombinedInvoiceStatus, CombinedReceivingStatus, IsServiceOnly>>
PurchaseProfiles ==
    {<<"ORDERED", "AUTHORISED", MissingKey, "NOT INVOICED", "NOT RECEIVED", TRUE>>,
     <<"ORDERED", "AUTHORISED", MissingKey, "NOT INVOICED", "NOT RECEIVED", FALSE>>,
     <<"ORDERED", "AUTHORISED", "DRAFT", "NOT INVOICED", "NOT RECEIVED", TRUE>>,
     <<"ORDERED", "AUTHORISED", "DRAFT", "NOT INVOICED", "NOT RECEIVED", FALSE>>,
     <<"RECEIVING", "AUTHORISED", "AUTHORISED", "INVOICED", "PARTIALLY RECEIVED", FALSE>>,
     <<"RECEIVED", "AUTHORISED", "NOT AVAILABLE", "PARTIALLY INVOICED", "FULLY RECEIVED",
       FALSE>>,
     <<"COMPLETED", "AUTHORISED", "DRAFT", "NOT INVOICED", "NOT RECEIVED", FALSE>>,
     <<"VOIDED", "AUTHORISED", "DRAFT", "INVOICED", "NOT RECEIVED", TRUE>>,
     <<"DRAFT", "DRAFT", NullValue, "NOT INVOICED", "NOT RECEIVED", FALSE>>,
     <<"ORDERING", MissingKey, MissingKey, "NOT AVAILABLE", "NOT AVAILABLE", FALSE>>}

PurchaseDates ==
    {Day(2024, 1, 31), Day(2024, 2, 1),
     DayTime(2024, 2, 1, 0, 0, 0), DayTimeZ(2024, 1, 31, 23, 59, 59),
     Day(2024, 12, 31), Day(2025, 1, 1),
     Day(2024, 1, 9), Day(2024, 1, 10), DayTime(2024, 1, 10, 9, 15, 0),
     DayTimeZ(2024, 1, 10, 12, 0, 0), DayTime(2024, 1, 9, 23, 59, 59),
     DayTimeZ(2024, 1, 9, 8, 0, 0),
     Day(2023, 3, 1), Day(2023, 3, 2),
     Day(2024, 2, 29), Day(2024, 3, 1),
     Missing, None, NotADate, Num(20240110)}

Purchase(prof, date) ==
    [OrderNumber |-> 0, Supplier |-> "Globex",
     Status |-> prof[1], OrderStatus |-> prof[2], InvoiceStatus |-> prof[3],
     CombinedInvoiceStatus |-> prof[4], CombinedReceivingStatus |-> prof[5],
     IsServiceOnly |-> prof[6], OrderDate |-> date]

PurchaseRecords == {Purchase(prof, date) : prof \in PurchaseProfiles, date \in PurchaseDates}

\* records of the lists longer than one
PurchaseCore ==
    {Purchase(<<"ORDERED", "AUTHORISED", MissingKey, "NOT INVOICED", "NOT RECEIVED", TRUE>>,
              Day(2024, 2, 1)),
     Purchase(<<"ORDERED", "AUTHORISED", "DRAFT", "NOT INVOICED", "NOT RECEIVED", FALSE>>,
              Day(2024, 1, 31)),
     Purchase(<<"RECEIVING", "AUTHORISED", "AUTHORISED", "INVOICED", "PARTIALLY RECEIVED",
                FALSE>>, DayTime(2024, 1, 10, 9, 15, 0)),
     Purchase(<<"RECEIVED", "AUTHORISED", "NOT AVAILABLE", "PARTIALLY INVOICED",
                "FULLY RECEIVED", FALSE>>, Day(2025, 1, 1)),
     Purchase(<<"COMPLETED", "AUTHORISED", "DRAFT", "NOT INVOICED", "NOT RECEIVED", FALSE>>,
              Day(2024, 2, 1)),
     Purchase(<<"DRAFT", "DRAFT", NullValue, "NOT INVOICED", "NOT RECEIVED", FALSE>>,
              Missing)}

PurchaseLists ==
    {Numbered(l) : l \in {<<r>> : r \in PurchaseRecords} \cup SeqsUpTo(PurchaseCore, MaxLen)}

-----------------------------------------------------------------------------
(* Inputs of the bulk runs: one record repeated, then another *)

\* largest number of repetitions; above DisplayCap
BulkMax == 11

Repeat(r, n) == [i \in 1..n |-> r]

BulkToday == Date(2025, 1, 9)

BulkPeriods == {<<2024, 7>>, <<0, 0>>}

\* an OrderDate-only sale, a later SaleOrderDate-only sale, a sale with both
\* dates, a COMPLETED sale and a sale older than the cutoff
BulkSales ==
    {Sale(<<MissingKey, MissingKey, "AUTHORISED", "FULFILLED", "NOT AVAILABLE", "SHIPPED">>,
          <<Missing, Day(2024, 6, 1)>>),
     Sale(<<"ORDERED", "AUTHORISED", "AUTHORISED", "FULFILLED", "DRAFT", "SHIPPED">>,
          <<Day(2024, 7, 1), Missing>>),
     Sale(<<"BACKORDERED", NullValue, "AUTHORISED", "NOT FULFILLED", "PAID", "NOT SHIPPED">>,
          <<Day(2024, 1, 15), Day(2024, 5, 1)>>),
     Sale(<<"COMPLETED", "DRAFT", "AUTHORISED", "FULFILLED", "NOT AVAILABLE", "NOT SHIPPED">>,
          <<Missing, Day(2024, 6, 2)>>),
     Sale(<<MissingKey, MissingKey, "AUTHORISED", "NOT FULFILLED", "AUTHORISED",
            "NOT SHIPPED">>, <<Missing, Day(2023, 12, 31)>>)}

BulkPurchases ==
    {Purchase(<<"ORDERED", "AUTHORISED", "DRAFT", "NOT INVOICED", "NOT RECEIVED", FALSE>>,
              Day(2024, 6, 30)),
     Purchase(<<"RECEIVING", "AUTHORISED", "AUTHORISED", "INVOICED", "PARTIALLY RECEIVED",
                FALSE>>, DayTime(2024, 7, 1, 0, 0, 0)),
     Purchase(<<"RECEIVED", "AUTHORISED", "NOT AVAILABLE", "PARTIALLY INVOICED",
                "FULLY RECEIVED", FALSE>>, Day(2025, 1, 1)),
     Purchase(<<"VOIDED", "AUTHORISED", "DRAFT", "INVOICED", "NOT RECEIVED", TRUE>>,
              Day(2024, 8, 1)),
     Purchase(<<"ORDERED", "AUTHORISED", MissingKey, "NOT INVOICED", "NOT RECEIVED", TRUE>>,
              Day(2023, 12, 31))}

\* the repeated record, then at most one other record
BulkLists(S) ==
    {Numbered(Repeat(r, n) \o post) :
        r \in S, n \in 0..BulkMax, post \in {<<>>} \cup {<<x>> : x \in S}}

-----------------------------------------------------------------------------
(* Inputs of the stock runs *)

PackagingTape == <<80, 97, 99, 107, 97, 103, 105, 110, 103, 32, 84, 97, 112, 101>>
Widget == <<87, 105, 100, 103, 101, 116>>
ConsumablesUpper == <<67, 79, 78, 83, 85, 77, 65, 66, 76, 69, 83>>
BubblePackaging ==
    <<98, 117, 98, 98, 108, 101, 45, 80, 65, 67, 75, 97, 103, 105, 110, 103>>
Packing == <<80, 97, 99, 107, 105, 110, 103>>

StockLine(name, qty, unit_cost, cost) ==
    [SKU |-> "S1", Name |-> name, Quantity |-> qty, UnitCost |-> unit_cost, Cost |-> cost]

LineNames ==
    {Str(PackagingTape), Str(Widget), Str(ConsumablesUpper), Str(BubblePackaging),
     Str(Packing), Missing}

\* <<Quantity, UnitCost, Cost>> of a line
LineAmounts ==
    {<<Num(500), Num(2), Missing>>, <<Num(300), Num(1), Missing>>,
     <<Num(-200), Num(3), Missing>>, <<Num(300), Missing, Num(4)>>,
     <<Num(-7), Num(0), Num(-2)>>, <<Missing, None, Missing>>,
     <<Num(0), Num(5), Num(9)>>}

WellFormedLines ==
    {StockLine(name, a[1], a[2], a[3]) : name \in LineNames, a \in LineAmounts}

\* lines with a null or wrong-typed field
MalformedLines ==
    {StockLine(None, Num(1), Num(1), Missing),
     StockLine(Num(7), Num(1), Num(1), Missing),
     StockLine(Str(Widget), None, Num(1), Missing),
     StockLine(Str(Widget), Num(1), None, None),
     StockLine(Str(Widget), Str(<<53>>), Num(2), Missing),
     StockLine(Str(Widget), Num(2), Str(<<53>>), Missing)}

\* the lines of end-to-end scenario 3
Scenario3 ==
    <<StockLine(Str(PackagingTape), Num(500), Num(2), Missing),
      StockLine(Str(Widget), Num(300), Num(1), Missing),
      StockLine(Str(Widget), Num(-200), Num(3), Missing)>>

\* lines of the lists longer than one
LineCore ==
    {StockLine(Str(PackagingTape), Num(500), Num(2), Missing),
     StockLine(Str(Widget), Num(300), Num(1), Missing),
     StockLine(Str(Widget), Num(-200), Num(3), Missing),
     StockLine(Str(BubblePackaging), Num(-7), Num(0), Num(-2)),
     StockLine(Missing, Num(300), Missing, Num(4))}

\* longest list drawn from the core lines
MaxLines == 3

\* seven reportable lines, more than the top lists hold
SevenLines ==
    [i \in 1..7 |-> StockLine(Str(Widget), Num((i % 4) * 10 - 15), Num(i), Missing)]

\* six increases and six decreases, one more of each than a top list holds;
\* the largest increase by quantity is the smallest by cost
TwelveLines ==
    [i \in 1..12 |->
        StockLine(Str(Widget),
                  Num(IF i % 2 = 1 THEN i * 10 ELSE 0 - i * 5),
                  Num(IF i = 11 THEN 1 ELSE 13 - i), Missing)]

LineLists ==
    {<<l>> : l \in WellFormedLines \cup MalformedLines}
        \cup SeqsUpTo(LineCore, MaxLines) \cup {Scenario3, SevenLines, TwelveLines}

Detail(location, new_stock_lines, lines) ==
    [Location |-> location, Date |-> "2024-02-10",
     NewStockLines |-> new_stock_lines, Lines |-> lines]

\* one detail, or a detail at Main followed by a detail without a location
\* that keeps its lines under the Lines key
AdjustmentInputs ==
    {<<Detail("Main", List(l), Missing)>> : l \in LineLists}
        \cup {<<Detail("Main", List(l), Missing), Detail(MissingKey, List(<<>>), lines)>> :
                 l \in SeqsUpTo(LineCore, 1),
                 lines \in {Missing, None} \cup {List(m) : m \in SeqsUpTo(LineCore, 1)}}

Item(location, sku, on_hand, allocated, available) ==
    [Location |-> location, SKU |-> sku, Name |-> Str(Widget),
     OnHand |-> on_hand, Allocated |-> allocated, Available |-> available]

\* <<OnHand, Allocated, Available>> of an availability record
ItemAmounts ==
    {<<Num(-5), Num(0), Num(-3)>>, <<Num(-5), Num(0), Num(2)>>,
     <<Num(4), Num(5), Num(-1)>>, <<Num(10), Num(2), Num(8)>>,
     <<Num(0), Num(0), Num(0)>>, <<Missing, Missing, Missing>>,
     <<Missing, Missing, Num(-2)>>,
     <<None, Num(0), Num(0)>>, <<Num(1), None, Num(1)>>, <<Num(-1), Num(0), None>>,
     <<Str(<<53>>), Num(0), Num(5)>>}

ItemRecords ==
    {Item(loc, sku, a[1], a[2], a[3]) :
        loc \in {"Main", "Store", MissingKey}, sku \in {"W1", MissingKey}, a \in ItemAmounts}

\* records of the lists longer than one
ItemCore ==
    {Item("Main", "W1", Num(-5), Num(0), Num(-3)),
     Item("Main", "W1", Num(-5), Num(0), Num(2)),
     Item("Store", "W1", Num(4), Num(5), Num(-1)),
     Item("Main", MissingKey, Num(10), Num(2), Num(8)),
     Item(MissingKey, "W1", Missing, Missing, Missing)}

\* longest list drawn from the core records
MaxItems == 3

AvailabilityLists == {<<r>> : r \in ItemRecords} \cup SeqsUpTo(ItemCore, MaxItems)

Product(sku, average_cost, default_cost) ==
    [SKU |-> sku, AverageCost |-> average_cost, DefaultCost |-> default_cost]

ProductLists ==
    {<<>>,
     <<Product("W1", Num(3), Missing)>>,
     <<Product("W1", None, Num(2))>>,
     <<Product("W1", Missing, Num(2)), Product("", Num(9), Missing)>>,
     <<Product("W1", Num(3), Missing), Product("W1", Num(4), Num(1))>>}

-----------------------------------------------------------------------------
(* The runs: one call of one processing function *)

Unset == [k |-> "unset"]

NoMetrics ==
    [sales |-> Unset, purchases |-> Unset, stock_adjustments |-> Unset,
     stock_availability |-> Unset]

\* st.session_state as the script initialises it
NewSession ==
    [client |-> "none", metrics |-> {}, data_loaded |-> FALSE, products |-> FALSE]

NoPdf == [sections_included |-> {}, rendered |-> {}]

\* no Load Data click yet
NoLoad ==
    /\ sections = {}
    /\ sync_file = FALSE
    /\ at = 0
    /\ session = NewSession
    /\ pdf = NoPdf
    /\ runs = 0

NoMasters == [products |-> <<>>, customers |-> <<>>, suppliers |-> <<>>]

\* no request under way, no hygiene check made
NoCall ==
    /\ server = Unset
    /\ paging = Unset
    /\ request = Unset
    /\ masters = NoMasters
    /\ returned = Unset

\* the state before the call
Ready ==
    /\ pc = "start"
    /\ metrics = NoMetrics
    /\ err = "none"
    /\ rerun = Unset
    /\ NoLoad
    /\ NoCall

NoStock ==
    /\ adjustment_details = <<>>
    /\ availability_data = <<>>
    /\ products = <<>>

NoOrders ==
    /\ sales_data = <<>>
    /\ purchases_data = <<>>

\* a run of the sales or of the purchases classification on a short pull
Init ==
    /\ today \in Todays
    /\ \E p \in Periods : report_year = p[1] /\ report_month = p[2]
    /\ \/ sales_data \in SaleLists /\ purchases_data = <<>>
       \/ sales_data = <<>> /\ purchases_data \in PurchaseLists
    /\ NoStock
    /\ Ready

\* a run of the sales or of the purchases classification on a bulk pull
InitBulk ==
    /\ today = BulkToday
    /\ \E p \in BulkPeriods : report_year = p[1] /\ report_month = p[2]
    /\ \/ sales_data \in BulkLists(BulkSales) /\ purchases_data = <<>>
       \/ sales_data = <<>> /\ purchases_data \in BulkLists(BulkPurchases)
    /\ NoStock
    /\ Ready

\* a run of a stock function
InitStock ==
    /\ today = BulkToday
    /\ report_year = 0 /\ report_month = 0
    /\ NoOrders
    /\ \/ /\ adjustment_details \in AdjustmentInputs
          /\ availability_data = <<>>
          /\ products = <<>>
       \/ /\ adjustment_details = <<>>
          /\ availability_data \in AvailabilityLists
          /\ products \in ProductLists
    /\ Ready

\* the caller stores the result under the domain's key, or the call raises
Store(domain, result) ==
    IF IsRaise(result)
    THEN /\ err' = result.exc
         /\ pc' = "failed"
         /\ UNCHANGED metrics
    ELSE /\ metrics' = [metrics EXCEPT ![domain] = result]
         /\ pc' = "done"
         /\ UNCHANGED err

\* metrics['sales'] = process_sales_metrics(all_sales, None, report_year, report_month)
ProcessSales ==
    /\ pc = "start"
    /\ Store("sales", process_sales_metrics(sales_data, report_year, report_month, today))
    /\ UNCHANGED <<inputs, rerun, rest>>

\* metrics['purchases'] = process_purchase_metrics(all_purchases, None, report_year,
\* report_month)
ProcessPurchases ==
    /\ pc = "start"
    /\ Store("purchases",
             process_purchase_metrics(purchases_data, report_year, report_month, today))
    /\ UNCHANGED <<inputs, rerun, rest>>

\* metrics['stock_adjustments'] = process_stock_adjustments(period_adjs, adj_details)
ProcessStockAdjustments ==
    /\ pc = "start"
    /\ Store("stock_adjustments", process_stock_adjustments(adjustment_details))
    /\ UNCHANGED <<inputs, rerun, rest>>

\* metrics['stock_availability'] = process_stock_availability(availability,
\* location_names, products)
ProcessStockAvailability ==
    /\ pc = "start"
    /\ Store("stock_availability", process_stock_availability(availability_data, products))
    /\ UNCHANGED <<inputs, rerun, rest>>

\* the pull with the records at positions i and j exchanged
Swap(list, i, j) ==
    [k \in 1..Len(list) |-> IF k = i THEN list[j] ELSE IF k = j THEN list[i] ELSE list[k]]

\* the same call on the same records returned in another order
ReprocessSales ==
    /\ pc = "done"
    /\ metrics.sales # Unset
    /\ \E i, j \in 1..Len(sales_data) :
          /\ i < j
          /\ rerun' = process_sales_metrics(Swap(sales_data, i, j),
                                            report_year, report_month, today)
    /\ pc' = "rerun"
    /\ UNCHANGED <<inputs, metrics, err, rest>>

ReprocessPurchases ==
    /\ pc = "done"
    /\ metrics.purchases # Unset
    /\ \E i, j \in 1..Len(purchases_data) :
          /\ i < j
          /\ rerun' = process_purchase_metrics(Swap(purchases_data, i, j),
                                                report_year, report_month, today)
    /\ pc' = "rerun"
    /\ UNCHANGED <<inputs, metrics, err, rest>>

Next == ProcessSales \/ ProcessPurchases

Spec == Init /\ [][Next]_vars

NextBulk == ProcessSales \/ ProcessPurchases \/ ReprocessSales \/ ReprocessPurchases

SpecBulk == InitBulk /\ [][NextBulk]_vars

\* the same call on the same records for another report period
ReprocessPeriod ==
    /\ pc = "done"
    /\ metrics.purchases # Unset
    /\ \E p \in Periods :
          rerun' = process_purchase_metrics(purchases_data, p[1], p[2], today)
    /\ pc' = "rerun"
    /\ UNCHANGED <<inputs, metrics, err, rest>>

\* a run of the purchases classification on a short pull
InitPeriod ==
    /\ today \in Todays
    /\ \E p \in Periods : report_year = p[1] /\ report_month = p[2]
    /\ sales_data = <<>>
    /\ purchases_data \in PurchaseLists
    /\ NoStock
    /\ Ready

NextPeriod == ProcessPurchases \/ ReprocessPeriod

SpecPeriod == InitPeriod /\ [][NextPeriod]_vars

NextStock == ProcessStockAdjustments \/ ProcessStockAvailability

SpecStock == InitStock /\ [][NextStock]_vars

-----------------------------------------------------------------------------
(* get_oldest_date called on the records of one bucket *)

MaxBucket == 3

\* date fields of a bucket's records: days, the same day written with a time, an
\* aware time, a text that is no date, an empty text, no field, null, a number
BucketDates ==
    {Day(2024, 1, 10), DayTime(2024, 1, 10, 0, 0, 0), DayTime(2024, 1, 10, 9, 15, 0),
     Day(2024, 1, 9), DayTimeZ(2024, 1, 9, 23, 59, 59), NotADate, Str(<<>>), Missing,
     None, Num(20240110)}

BucketLists ==
    {Numbered(l) :
        l \in SeqsUpTo({[OrderNumber |-> 0, OrderDate |-> d] : d \in BucketDates},
                       MaxBucket)}

\* the caller gets the value, or the call raises
Return(value) ==
    IF IsRaise(value)
    THEN /\ err' = value.exc
         /\ pc' = "failed"
         /\ UNCHANGED returned
    ELSE /\ returned' = value
         /\ pc' = "done"
         /\ UNCHANGED err

\* oldest = get_oldest_date(matching, 'OrderDate')
GetOldest ==
    /\ pc = "start"
    /\ Return(get_oldest_date(purchases_data, "OrderDate", today))
    /\ UNCHANGED <<classified, load, http, masters>>

InitOldest ==
    /\ today = BulkToday
    /\ report_year = 0 /\ report_month = 0
    /\ sales_data = <<>>
    /\ purchases_data \in BucketLists
    /\ NoStock
    /\ Ready

NextOldest == GetOldest

SpecOldest == InitOldest /\ [][NextOldest]_vars

-----------------------------------------------------------------------------
(***************************************************************************)
(* process_data_hygiene.  True and False are the numbers 1 and 0, which    *)
(* they equal in Python.                                                   *)
(***************************************************************************)

\* PriceTier1 .. PriceTier10
TierCount == 10

\* any(product.get(f'PriceTier{i}', 0) > 0 ...) from tier i on, read in order:
\* "yes" at the first price above 0, "raise" at a value that is no number
RECURSIVE AnyPrice(_, _)
AnyPrice(tiers, i) ==
    IF i > TierCount THEN "no"
    ELSE IF GetDefault(tiers[i], Num(0)).k # "num" THEN "raise"
    ELSE IF GetDefault(tiers[i], Num(0)).n > 0 THEN "yes"
    ELSE AnyPrice(tiers, i + 1)

IsSellable(product) == Truthy(GetDefault(product.Sellable, Num(0)))

\* the comparison of a price tier of a sellable product raises TypeError
ProductsRaise(prods) ==
    \E i \in DOMAIN prods : IsSellable(prods[i]) /\ AnyPrice(prods[i].PriceTiers, 1) = "raise"

ProductEntry(product) ==
    [sku |-> GetDefault(product.SKU, Str(Unknown)),
     name |-> GetDefault(product.Name, Str(Unknown))]

Entries(records, Entry(_)) == [i \in DOMAIN records |-> Entry(records[i])]

\* metrics['products']
ProductIssues(prods) ==
    [no_price |->
        Entries(SelectSeq(prods,
                    LAMBDA q : IsSellable(q) /\ AnyPrice(q.PriceTiers, 1) = "no"),
                ProductEntry),
     no_barcode |->
        Entries(SelectSeq(prods, LAMBDA q : IsSellable(q) /\ ~Truthy(Get(q.Barcode))),
                ProductEntry)]

\* contacts = party.get('Contacts', []) or []
ContactsOf(party) ==
    IF Truthy(GetDefault(party.Contacts, List(<<>>))) THEN party.Contacts.items ELSE <<>>

\* a has_phone that wants both numbers on a contact
HasPhoneBoth(party) ==
    \E i \in DOMAIN ContactsOf(party) :
        /\ Truthy(Get(ContactsOf(party)[i].Phone))
        /\ Truthy(Get(ContactsOf(party)[i].MobilePhone))

\* has_email = any(c.get('Email') for c in contacts)
HasEmail(party) ==
    \E i \in DOMAIN ContactsOf(party) : Truthy(Get(ContactsOf(party)[i].Email))

\* has_phone = any(c.get('Phone') or c.get('MobilePhone') for c in contacts)
HasPhone(party) ==
    \E i \in DOMAIN ContactsOf(party) :
        Truthy(Or(Get(ContactsOf(party)[i].Phone), Get(ContactsOf(party)[i].MobilePhone)))

PartyEntry(party) == [name |-> GetDefault(party.Name, Str(Unknown))]

\* metrics['suppliers']
SupplierIssues(parties) ==
    [missing_email |->
        Entries(SelectSeq(parties, LAMBDA c : ~HasEmail(c)), PartyEntry),
     missing_phone |->
        Entries(SelectSeq(parties, LAMBDA c : ~HasPhone(c)), PartyEntry),
     missing_payment_terms |->
        Entries(SelectSeq(parties, LAMBDA c : ~Truthy(Get(c.PaymentTerm))), PartyEntry)]

\* metrics['customers']
CustomerIssues(parties) ==
    [missing_email |->
        Entries(SelectSeq(parties, LAMBDA c : ~HasEmail(c)), PartyEntry),
     missing_phone |->
        Entries(SelectSeq(parties, LAMBDA c : ~HasPhone(c)), PartyEntry),
     missing_payment_terms |->
        Entries(SelectSeq(parties, LAMBDA c : ~Truthy(Get(c.PaymentTerm))), PartyEntry),
     on_credit_hold |->
        Entries(SelectSeq(parties, LAMBDA c : Truthy(Get(c.IsOnCreditHold))), PartyEntry)]

\* a total that leaves the customers on credit hold out
HygieneTotalWithoutHold(p, c, s) ==
    Len(p.no_price) + Len(p.no_barcode)
        + Len(c.missing_email) + Len(c.missing_phone) + Len(c.missing_payment_terms)
        + Len(s.missing_email) + Len(s.missing_phone) + Len(s.missing_payment_terms)

\* metrics['summary']['total_issues']
HygieneTotal(p, c, s) ==
    Len(p.no_price) + Len(p.no_barcode)
        + Len(c.missing_email) + Len(c.missing_phone) + Len(c.missing_payment_terms)
        + Len(c.on_credit_hold)
        + Len(s.missing_email) + Len(s.missing_phone) + Len(s.missing_payment_terms)

\* the dictionary process_data_hygiene returns
HygieneMetrics(p, c, s) ==
    [k |-> "metrics",
     products |-> p,
     customers |-> c,
     suppliers |-> s,
     summary |->
        [products_no_price |-> Len(p.no_price),
         products_no_barcode |-> Len(p.no_barcode),
         customers_missing_email |-> Len(c.missing_email),
         customers_missing_phone |-> Len(c.missing_phone),
         customers_missing_payment_terms |-> Len(c.missing_payment_terms),
         customers_on_credit_hold |-> Len(c.on_credit_hold),
         suppliers_missing_email |-> Len(s.missing_email),
         suppliers_missing_phone |-> Len(s.missing_phone),
         suppliers_missing_payment_terms |-> Len(s.missing_payment_terms),
         total_issues |-> HygieneTotal(p, c, s)]]

\* process_data_hygiene(products, customers, suppliers): the dictionary, or a
\* raised TypeError
process_data_hygiene(prods, customers, suppliers) ==
    IF ProductsRaise(prods) THEN Raise("TypeError")
    ELSE HygieneMetrics(ProductIssues(prods), CustomerIssues(customers),
                        SupplierIssues(suppliers))

\* metrics['data_hygiene'] = process_data_hygiene(products, customers, suppliers)
ProcessDataHygiene ==
    /\ pc = "start"
    /\ Return(process_data_hygiene(masters.products, masters.customers,
                                   masters.suppliers))
    /\ UNCHANGED <<classified, load, http, masters>>

(* Inputs of process_data_hygiene *)

Barcode == Str(<<57, 51>>)
Address == Str(<<97, 64, 98>>)
Number == Str(<<53, 53, 53>>)
Terms == Str(<<51, 48>>)

NoTiers == [i \in 1..TierCount |-> Missing]

\* a product with the given retail prices in its first and last tier
MasterProduct(sellable, first, last, barcode) ==
    [SKU |-> Str(<<87, 49>>), Name |-> Str(Widget), Sellable |-> sellable,
     PriceTiers |-> [NoTiers EXCEPT ![1] = first, ![TierCount] = last],
     Barcode |-> barcode]

MasterProducts ==
    {MasterProduct(Num(1), Missing, Missing, Missing),
     MasterProduct(Num(1), Num(0), Num(12), Barcode),
     MasterProduct(Num(1), Num(12), None, Str(<<>>)),
     MasterProduct(Num(1), None, Num(12), Barcode),
     MasterProduct(Num(1), Num(-1), Num(0), None),
     MasterProduct(Num(0), None, Missing, Missing),
     MasterProduct(Missing, Num(0), Num(0), Missing)}

MaxProducts == 1

MasterProductLists == SeqsUpTo(MasterProducts, MaxProducts)

Contact(email, phone, mobile) == [Email |-> email, Phone |-> phone, MobilePhone |-> mobile]

Contacts ==
    {Contact(Address, Missing, Missing), Contact(Missing, Number, None),
     Contact(None, Str(<<>>), Number), Contact(Str(<<>>), None, Missing)}

MaxContacts == 2

ContactLists == {Missing, None} \cup {List(l) : l \in SeqsUpTo(Contacts, MaxContacts)}

Party(contacts, term, hold) ==
    [Name |-> Str(<<>>), Contacts |-> contacts, PaymentTerm |-> term, IsOnCreditHold |-> hold]

Parties ==
    {Party(c, th[1], th[2]) :
        c \in ContactLists, th \in {<<Missing, Missing>>, <<Terms, Num(1)>>}}

\* parties of the lists longer than one
PartyCore ==
    {Party(List(<<Contact(Address, Missing, Missing)>>), Terms, Num(0)),
     Party(List(<<Contact(Missing, Number, None)>>), Str(<<>>), Num(1)),
     Party(Missing, None, None)}

MaxParties == 2

\* the names A, B, C, D
PartyNames == <<Str(<<65>>), Str(<<66>>), Str(<<67>>), Str(<<68>>)>>

Named(list) == [i \in 1..Len(list) |-> [list[i] EXCEPT !.Name = PartyNames[i]]]

PartyLists == {Named(l) : l \in {<<r>> : r \in Parties} \cup SeqsUpTo(PartyCore, MaxParties)}

\* the lists given for the other kind of party
FewPartyLists ==
    {Named(l) :
        l \in {<<>>,
               <<Party(List(<<Contact(None, Str(<<>>), Number)>>), Terms, Num(1))>>,
               <<Party(None, Terms, Missing),
                 Party(List(<<Contact(Address, Number, Number)>>), Missing, Num(1))>>}}

\* a call of process_data_hygiene
InitHygiene ==
    /\ today = BulkToday
    /\ report_year = 0 /\ report_month = 0
    /\ NoOrders
    /\ NoStock
    /\ pc = "start"
    /\ metrics = NoMetrics
    /\ err = "none"
    /\ rerun = Unset
    /\ NoLoad
    /\ server = Unset
    /\ paging = Unset
    /\ request = Unset
    /\ returned = Unset
    /\ \E p \in MasterProductLists :
          \/ \E c \in PartyLists, s \in FewPartyLists :
                masters = [products |-> p, customers |-> c, suppliers |-> s]
          \/ \E c \in FewPartyLists, s \in PartyLists :
                masters = [products |-> p, customers |-> c, suppliers |-> s]

NextHygiene == ProcessDataHygiene

SpecHygiene == InitHygiene /\ [][NextHygiene]_vars

\* a call of one of the functions that return a summary
InitSummary ==
    \/ Init
    \/ InitStock /\ adjustment_details = <<>>
    \/ InitHygiene

NextSummary ==
    ProcessSales \/ ProcessPurchases \/ ProcessStockAvailability \/ ProcessDataHygiene

SpecSummary == InitSummary /\ [][NextSummary]_vars

-----------------------------------------------------------------------------
(***************************************************************************)
(* The Load Data handler of app.py and the PDF builder.  The session's     *)
(* metrics are modelled by their keys.                                     *)
(***************************************************************************)

\* the sections of the sidebar, in the order the handler loads them
LoadOrder ==
    <<"sales", "purchases", "stock_adjustments", "stock_takes", "transfers",
      "assemblies", "stock_per_location", "data_hygiene", "credit_notes">>

Sections == {LoadOrder[i] : i \in DOMAIN LoadOrder}

\* the checkboxes created with value=True
Defaults ==
    {"sales", "purchases", "stock_adjustments", "stock_takes", "transfers",
     "stock_per_location"}

MaxSelected == 1

MaxRuns == 2

\* the selections explored: few ticks, the defaults, everything
SectionChoices ==
    {c \in SUBSET Sections : Cardinality(c) <= MaxSelected} \cup {Defaults, Sections}

\* blocks that each store the one key named after the section
StoredKeysBySection(s) == {s}

\* the keys a section's block stores in st.session_state.metrics
StoredKeys(s) ==
    CASE s = "assemblies" -> {"assemblies", "production"}
      [] s = "stock_per_location" -> {"stock_availability"}
      [] OTHER -> {s}

\* blocks whose processing raises on some pulls (date(...) of the period, adj['TaskID'],
\* the comparisons of get_oldest_date)
ProcessingRaises == {"sales", "purchases", "stock_adjustments", "stock_takes"}

\* how a section's block ends: every call returns, a client call raises Cin7APIError,
\* the processing raises, or the call passes include_deprecated=False, which
\* get_products, get_customers and get_suppliers do not accept
BlockOutcomes(s, cached) ==
    CASE s = "stock_per_location" ->
            IF cached THEN {"ok", "Cin7APIError"} ELSE {"Cin7APIError", "TypeError"}
      [] s = "data_hygiene" -> {"TypeError"}
      [] s \in ProcessingRaises -> {"ok", "Cin7APIError", "Exception"}
      [] OTHER -> {"ok", "Cin7APIError"}

\* the except clauses: the error is shown and the handler ends
LoadFails(exc) ==
    /\ pc' = "failed"
    /\ err' = exc

\* a handler that empties the metrics before it builds the client
ClickLoadDataResetFirst ==
    /\ pc \in {"idle", "done", "failed"}
    /\ runs < MaxRuns
    /\ runs' = runs + 1
    /\ pdf' = NoPdf
    /\ \E chosen \in SectionChoices, file \in BOOLEAN, credentials \in BOOLEAN :
          /\ sections' = chosen
          /\ sync_file' = file
          /\ IF credentials
             THEN /\ session' = [session EXCEPT !.client = "client", !.metrics = {}]
                  /\ pc' = "loading"
                  /\ err' = "none"
                  /\ at' = 1
             ELSE /\ LoadFails("ValueError")
                  /\ at' = 0
                  /\ session' = [session EXCEPT !.metrics = {}]
    /\ UNCHANGED <<classified, http, masters, returned>>

\* the button: Cin7APIClient(client_number), then metrics = {}
ClickLoadData ==
    /\ pc \in {"idle", "done", "failed"}
    /\ runs < MaxRuns
    /\ runs' = runs + 1
    /\ pdf' = NoPdf
    /\ \E chosen \in SectionChoices, file \in BOOLEAN, credentials \in BOOLEAN :
          /\ sections' = chosen
          /\ sync_file' = file
          /\ IF credentials
             THEN /\ session' = [session EXCEPT !.client = "client", !.metrics = {}]
                  /\ pc' = "loading"
                  /\ err' = "none"
                  /\ at' = 1
             ELSE /\ LoadFails("ValueError")
                  /\ at' = 0
                  /\ UNCHANGED session
    /\ UNCHANGED <<classified, http, masters, returned>>

\* one if sections[...] block
LoadSection ==
    /\ pc = "loading"
    /\ at \in DOMAIN LoadOrder
    /\ IF LoadOrder[at] \notin sections
       THEN /\ at' = at + 1
            /\ UNCHANGED <<pc, err, session>>
       ELSE \E outcome \in BlockOutcomes(LoadOrder[at], session.products) :
               IF outcome = "ok"
               THEN /\ session' = [session EXCEPT
                                      !.metrics = @ \cup StoredKeys(LoadOrder[at])]
                    /\ at' = at + 1
                    /\ UNCHANGED <<pc, err>>
               ELSE /\ LoadFails(outcome)
                    /\ UNCHANGED <<at, session>>
    /\ UNCHANGED <<classified, http, masters, returned, sections, sync_file, pdf, runs>>

\* if sync_file is not None: read_excel, process_sync_errors
ProcessSyncFile ==
    /\ pc = "loading"
    /\ at = Len(LoadOrder) + 1
    /\ IF ~sync_file
       THEN /\ at' = at + 1
            /\ UNCHANGED <<pc, err, session>>
       ELSE \E outcome \in {"ok", "Exception"} :
               IF outcome = "ok"
               THEN /\ session' = [session EXCEPT !.metrics = @ \cup {"sync_errors"}]
                    /\ at' = at + 1
                    /\ UNCHANGED <<pc, err>>
               ELSE /\ LoadFails(outcome)
                    /\ UNCHANGED <<at, session>>
    /\ UNCHANGED <<classified, http, masters, returned, sections, sync_file, pdf, runs>>

\* st.session_state.data_loaded = True
FinishLoad ==
    /\ pc = "loading"
    /\ at = Len(LoadOrder) + 2
    /\ session' = [session EXCEPT !.data_loaded = TRUE]
    /\ pc' = "done"
    /\ UNCHANGED <<classified, http, masters, returned, err, sections, sync_file, at, pdf, runs>>

\* the metrics key a section of the PDF is built from
PdfKey(s) == IF s = "stock_per_location" THEN "stock_availability" ELSE s

\* the sections _build_html has a block for
PdfSections == Sections \ {"credit_notes"}

\* the sections _build_html adds to the document
Rendered(keys, included) ==
    {s \in PdfSections : s \in included /\ PdfKey(s) \in keys}
        \cup (IF "sync_errors" \in keys THEN {"sync_errors"} ELSE {})

\* the Generate PDF button of the tabs shown once data_loaded is set, with the
\* checkboxes as they are ticked at that time
GeneratePdf ==
    /\ pc \in {"done", "failed"}
    /\ session.data_loaded
    /\ \E included \in SectionChoices :
          pdf' = [sections_included |-> included,
                  rendered |-> Rendered(session.metrics, included)]
    /\ UNCHANGED <<classified, http, masters, returned, pc, err, sections, sync_file, at, session,
                   runs>>

\* the dashboard before the first click
InitLoad ==
    /\ today = BulkToday
    /\ report_year = 0 /\ report_month = 0
    /\ NoOrders
    /\ NoStock
    /\ pc = "idle"
    /\ metrics = NoMetrics
    /\ err = "none"
    /\ rerun = Unset
    /\ NoLoad
    /\ NoCall

NextLoad == ClickLoadData \/ LoadSection \/ ProcessSyncFile \/ FinishLoad \/ GeneratePdf

SpecLoad == InitLoad /\ [][NextLoad]_vars

\* the handler runs to its end or to an exception once the button is clicked:
\* the script is not interrupted between two blocks
SpecLoadFair ==
    /\ InitLoad
    /\ [][NextLoad]_vars
    /\ WF_vars(LoadSection)
    /\ WF_vars(ProcessSyncFile)
    /\ WF_vars(FinishLoad)

-----------------------------------------------------------------------------
(***************************************************************************)
(* The API client: _make_request and _paginate.  Records are numbered in   *)
(* the order the endpoint serves them.                                     *)
(***************************************************************************)

MAX_RETRIES == 3

\* requests.exceptions.RequestException: the request got no response
NoResponse == 0

\* a status outside the ones _make_request names
OtherStatus == 302

\* a 200 response whose body is no JSON: response.json() raises
\* requests.exceptions.JSONDecodeError, a RequestException
UndecodableBody == 1

\* what one attempt may meet
Responses ==
    {200, 400, 403, 404, 429, 500, 503, OtherStatus, NoResponse, UndecodableBody}

\* _make_request with the 429 branch raising at once
HandlingNoRateLimitRetry(status, retry_count) ==
    CASE status = 200 -> "return"
      [] status \in {500, 503, NoResponse, UndecodableBody} ->
            IF retry_count < MAX_RETRIES THEN "retry" ELSE "raise"
      [] OTHER -> "raise"

\* _make_request with one retry more than MAX_RETRIES
HandlingOneMoreRetry(status, retry_count) ==
    CASE status = 200 -> "return"
      [] status \in {400, 403, 404} -> "raise"
      [] status \in {429, 500, 503, NoResponse, UndecodableBody} ->
            IF retry_count <= MAX_RETRIES THEN "retry" ELSE "raise"
      [] OTHER -> "raise"

\* the branch of _make_request a response takes: return the body, raise
\* Cin7APIError, or call _make_request again with retry_count + 1
Handling(status, retry_count) ==
    CASE status = 200 -> "return"
      [] status \in {400, 403, 404} -> "raise"
      [] status \in {429, 500, 503, NoResponse, UndecodableBody} ->
            IF retry_count < MAX_RETRIES THEN "retry" ELSE "raise"
      [] OTHER -> "raise"

\* the body of a 200 response
Body == [k |-> "body"]

\* one call of _make_request: _enforce_rate_limit, the request, the status
\* handling
SendRequest ==
    /\ pc = "request"
    /\ \E status \in Responses :
          /\ request' =
                [retry_count |->
                    IF Handling(status, request.retry_count) = "retry"
                    THEN request.retry_count + 1
                    ELSE request.retry_count,
                 waits |-> request.waits + 1,
                 received |-> Append(request.received, status)]
          /\ pc' = CASE Handling(status, request.retry_count) = "return" -> "returned"
                     [] Handling(status, request.retry_count) = "raise" -> "raised"
                     [] OTHER -> "request"
          /\ err' = IF Handling(status, request.retry_count) = "raise"
                    THEN "Cin7APIError"
                    ELSE err
          /\ returned' = IF Handling(status, request.retry_count) = "return"
                         THEN Body
                         ELSE returned
    /\ UNCHANGED <<classified, load, server, paging, masters>>

\* _make_request(endpoint, params) as a client method calls it
InitRequest ==
    /\ today = BulkToday
    /\ report_year = 0 /\ report_month = 0
    /\ NoOrders
    /\ NoStock
    /\ pc = "request"
    /\ metrics = NoMetrics
    /\ err = "none"
    /\ rerun = Unset
    /\ NoLoad
    /\ server = Unset
    /\ paging = Unset
    /\ request = [retry_count |-> 0, waits |-> 0, received |-> <<>>]
    /\ masters = NoMasters
    /\ returned = Unset

NextRequest == SendRequest

SpecRequest == InitRequest /\ [][NextRequest]_vars

\* the call is not interrupted: the sleeps end and every request is answered or
\* fails
SpecRequestFair == InitRequest /\ [][NextRequest]_vars /\ WF_vars(SendRequest)

MaxRecords == 5

MaxLimit == 2

\* the response shapes of the list endpoints: a bare list, or a mapping with
\* Total and one data list
Shapes == {"list", "mapping"}

\* endpoints holding count records, served limit at a time; a mapping carries
\* the number of records as Total, or no Total
Servers ==
    {s \in [shape : Shapes, count : 0..MaxRecords, limit : 1..MaxLimit,
            total : 0..MaxRecords] :
        IF s.shape = "list" THEN s.total = 0 ELSE s.total \in {0, s.count}}

\* the records of page number page
PageRecords(srv, page) ==
    [i \in 1..(IF srv.count - (page - 1) * srv.limit < 0
               THEN 0
               ELSE IF srv.count - (page - 1) * srv.limit > srv.limit
                    THEN srv.limit
                    ELSE srv.count - (page - 1) * srv.limit)
        |-> (page - 1) * srv.limit + i]

\* total: len(records) of a bare list, response.get("Total", 0) of a mapping
PageTotal(srv, records) ==
    IF srv.shape = "list" THEN Len(records) ELSE srv.total

\* the breaks of the loop after all_records.extend(records)
LastPage(records, total, all_records, limit) ==
    \/ Len(records) < limit
    \/ total > 0 /\ Len(all_records) >= total

\* the loop body once the response is in
PageRead(records, total) ==
    IF records = <<>>
    THEN /\ pc' = "returned"
         /\ returned' = paging.all_records
         /\ UNCHANGED paging
    ELSE IF LastPage(records, total, paging.all_records \o records, server.limit)
         THEN /\ pc' = "returned"
              /\ returned' = paging.all_records \o records
              /\ paging' = [paging EXCEPT !.all_records = @ \o records]
         ELSE /\ paging' = [page |-> paging.page + 1,
                            all_records |-> paging.all_records \o records]
              /\ UNCHANGED <<pc, returned>>

\* one turn of the while loop of _paginate; the request returns the page or raises
FetchPage ==
    /\ pc = "paging"
    /\ \E answered \in BOOLEAN :
          IF answered
          THEN /\ PageRead(PageRecords(server, paging.page),
                           PageTotal(server, PageRecords(server, paging.page)))
               /\ UNCHANGED err
          ELSE /\ pc' = "raised"
               /\ err' = "Cin7APIError"
               /\ UNCHANGED <<paging, returned>>
    /\ UNCHANGED <<classified, load, server, request, masters>>

\* _paginate(endpoint, params, limit) at its first page
InitPaginate ==
    /\ today = BulkToday
    /\ report_year = 0 /\ report_month = 0
    /\ NoOrders
    /\ NoStock
    /\ pc = "paging"
    /\ metrics = NoMetrics
    /\ err = "none"
    /\ rerun = Unset
    /\ NoLoad
    /\ server \in Servers
    /\ paging = [page |-> 1, all_records |-> <<>>]
    /\ request = Unset
    /\ masters = NoMasters
    /\ returned = Unset

NextPaginate == FetchPage

SpecPaginate == InitPaginate /\ [][NextPaginate]_vars

-----------------------------------------------------------------------------
(* Properties of the classification runs *)

SalesDone == pc = "done" /\ metrics.sales # Unset
PurchasesDone == pc = "done" /\ metrics.purchases # Unset

\* the calendar day a date text names
DayOf(v) == IF v.k = "str" THEN parse_date(v) ELSE NoDate
OrdinalOf(dt) == toordinal(dt.y, dt.m, dt.d)

\* the date names a day earlier than today - 365 days
DayBeforeCutoff(day, tdy) == day.ok /\ OrdinalOf(day) < OrdinalOf(tdy) - ActivityDays
\* the date names a day on or after today - 365 days
DayFromCutoff(day, tdy) == day.ok /\ OrdinalOf(day) >= OrdinalOf(tdy) - ActivityDays

ExcludedSale(s, tdy) ==
    s.Status \in {"COMPLETED", "VOIDED"} \/ DayBeforeCutoff(DayOf(sale_date(s)), tdy)
ExcludedPurchase(p, tdy) ==
    p.Status \in {"COMPLETED", "VOIDED"} \/ DayBeforeCutoff(DayOf(purchase_date(p)), tdy)

\* the record at position i of the pull is shown in the bucket
Shown(bucket, i) == \E j \in DOMAIN bucket.records : bucket.records[j].OrderNumber = i

SalesCountNames ==
    {"draft_quotes", "pending_orders", "backordered", "awaiting_fulfilment",
     "orders_to_bill", "authorised_quotes_no_so"}

SaleCountTest(name, s) ==
    CASE name = "draft_quotes" -> IsDraftQuote(s)
      [] name = "pending_orders" -> IsPendingOrder(s)
      [] name = "backordered" -> IsBackordered(s)
      [] name = "awaiting_fulfilment" -> IsAwaitingFulfilment(s)
      [] name = "orders_to_bill" -> IsOrderToBill(s)
      [] name = "authorised_quotes_no_so" -> IsAuthorisedQuoteNoSo(s)

SaleAnomalyTest(name, s, period_start) ==
    CASE name = "authorised_prior_not_fulfilled" ->
             IsAuthorisedPriorNotFulfilled(s, period_start)
      [] name = "fulfilled_not_invoiced" -> IsFulfilledNotInvoiced(s)
      [] name = "invoiced_not_fulfilled" -> IsInvoicedNotFulfilled(s)

PurchaseCountNames == {"draft", "awaiting_approval", "billing", "awaiting_delivery"}

PurchaseCountTest(name, p) ==
    CASE name = "draft" -> IsDraftPurchase(p)
      [] name = "awaiting_approval" -> IsAwaitingApproval(p)
      [] name = "billing" -> IsBilling(p)
      [] name = "awaiting_delivery" -> IsAwaitingDelivery(p)

PurchaseAnomalyTest(name, p, period_start) ==
    /\ IsAuthorised(p)
    /\ CASE name = "prior_not_invoiced" -> IsPriorNotInvoiced(p, period_start)
         [] name = "prior_not_received" -> IsPriorNotReceived(p, period_start)
         [] name = "current_not_invoiced" -> IsCurrentNotInvoiced(p, period_start)
         [] name = "current_not_received" -> IsCurrentNotReceived(p, period_start)
         [] name = "fully_invoiced_not_received" -> IsFullyInvoicedNotReceived(p)
         [] name = "fully_received_not_invoiced" -> IsFullyReceivedNotInvoiced(p)

\* no bucket of the sales result holds or counts a record outside kept
SalesBucketsWithin(m, kept, period_start) ==
    /\ m.summary.active_sales <= Len(kept)
    /\ \A c \in SalesCountNames :
          m.status_counts[c] <= CountWhere(kept, LAMBDA s : SaleCountTest(c, s))
    /\ \A b \in SalesAnomalyNames :
          /\ m.anomalies[b].count
                <= CountWhere(kept, LAMBDA s : SaleAnomalyTest(b, s, period_start))
          /\ \A j \in DOMAIN m.anomalies[b].records :
                \E k \in DOMAIN kept : kept[k] = m.anomalies[b].records[j]
    /\ \A st \in DOMAIN m.oldest_by_status :
          \E k \in DOMAIN kept : kept[k].OrderNumber = m.oldest_by_status[st].order_number

\* no bucket of the purchases result holds or counts a record outside kept
PurchasesBucketsWithin(m, kept, period_start) ==
    /\ m.summary.active_purchases <= Len(kept)
    /\ \A c \in PurchaseCountNames :
          m.status_counts[c] <= CountWhere(kept, LAMBDA p : PurchaseCountTest(c, p))
    /\ \A b \in PurchaseAnomalyNames :
          /\ m.anomalies[b].count
                <= CountWhere(kept, LAMBDA p : PurchaseAnomalyTest(b, p, period_start))
          /\ \A j \in DOMAIN m.anomalies[b].records :
                \E k \in DOMAIN kept : kept[k] = m.anomalies[b].records[j]
    /\ \A st \in DOMAIN m.oldest_by_status :
          \E k \in DOMAIN kept : kept[k].OrderNumber = m.oldest_by_status[st].order_number

\* C1: activity filter. In the result of process_sales_metrics and of
\* process_purchase_metrics, a record whose Status is COMPLETED or VOIDED, and
\* a record whose best-available date names a day earlier than today - 365
\* days, is counted in no status count, counted and shown in no anomaly
\* bucket and reported as the oldest of no status, whatever its other fields.
C1_ActivityFilter ==
    /\ SalesDone =>
          SalesBucketsWithin(metrics.sales,
                             SelectSeq(sales_data, LAMBDA s : ~ExcludedSale(s, today)),
                             PeriodStart(report_year, report_month, today))
    /\ PurchasesDone =>
          PurchasesBucketsWithin(metrics.purchases,
                                 SelectSeq(purchases_data,
                                           LAMBDA p : ~ExcludedPurchase(p, today)),
                                 PeriodStart(report_year, report_month, today))

\* a finished sales run over a COMPLETED sale and an AUTHORISED sale older than
\* the cutoff, both fulfilled and not invoiced, neither of them counted
C1_Witness ==
    /\ SalesDone
    /\ \E i \in DOMAIN sales_data :
          /\ sales_data[i].Status = "COMPLETED"
          /\ IsFulfilledNotInvoiced(sales_data[i])
          /\ ~DayBeforeCutoff(DayOf(sale_date(sales_data[i])), today)
    /\ \E i \in DOMAIN sales_data :
          /\ sales_data[i].OrderStatus = "AUTHORISED"
          /\ NotTerminal(sales_data[i])
          /\ IsFulfilledNotInvoiced(sales_data[i])
          /\ DayBeforeCutoff(DayOf(sale_date(sales_data[i])), today)
    /\ metrics.sales.anomalies["fulfilled_not_invoiced"].count = 0

\* the report period names a month, or is left out
PeriodGiven == report_year \in 1..9999 /\ report_month \in 1..12
PeriodLeftOut == report_year = 0 /\ report_month = 0

\* ordinal of the first day of the report period
PeriodStartOrdinal ==
    IF PeriodGiven THEN toordinal(report_year, report_month, 1)
    ELSE toordinal(today.y, today.m, 1)

\* an active AUTHORISED purchase order dated on the day of the ordinal
ActiveAuthorisedOn(p, day, ordinal) ==
    /\ p.Status \notin {"COMPLETED", "VOIDED"}
    /\ p.OrderStatus = "AUTHORISED"
    /\ DayFromCutoff(day, today)
    /\ OrdinalOf(day) = ordinal

PurchaseAnomaly(name) == metrics.purchases.anomalies[name]

\* the order at position i is in the current buckets its statuses select and
\* in no prior bucket
PlacedCurrent(p, i) ==
    /\ NotInvoiced(p) <=> Shown(PurchaseAnomaly("current_not_invoiced"), i)
    /\ NotReceived(p) <=> Shown(PurchaseAnomaly("current_not_received"), i)
    /\ ~Shown(PurchaseAnomaly("prior_not_invoiced"), i)
    /\ ~Shown(PurchaseAnomaly("prior_not_received"), i)

PlacedPrior(p, i) ==
    /\ NotInvoiced(p) <=> Shown(PurchaseAnomaly("prior_not_invoiced"), i)
    /\ NotReceived(p) <=> Shown(PurchaseAnomaly("prior_not_received"), i)
    /\ ~Shown(PurchaseAnomaly("current_not_invoiced"), i)
    /\ ~Shown(PurchaseAnomaly("current_not_received"), i)

\* C3: period gating for purchases. An active AUTHORISED purchase order dated
\* on the first day of the report period is in the current buckets its
\* invoice and receiving statuses select and in no prior bucket; one dated the
\* day before is in the prior buckets and in no current bucket; and no order
\* is in both prior_not_invoiced and current_not_invoiced, nor in both
\* prior_not_received and current_not_received.
C3_PeriodGating ==
    (PurchasesDone /\ (PeriodGiven \/ PeriodLeftOut)) =>
        \A i \in DOMAIN purchases_data :
            /\ ActiveAuthorisedOn(purchases_data[i], DayOf(purchase_date(purchases_data[i])),
                                  PeriodStartOrdinal)
                  => PlacedCurrent(purchases_data[i], i)
            /\ ActiveAuthorisedOn(purchases_data[i], DayOf(purchase_date(purchases_data[i])),
                                  PeriodStartOrdinal - 1)
                  => PlacedPrior(purchases_data[i], i)
            /\ ~(/\ Shown(PurchaseAnomaly("prior_not_invoiced"), i)
                 /\ Shown(PurchaseAnomaly("current_not_invoiced"), i))
            /\ ~(/\ Shown(PurchaseAnomaly("prior_not_received"), i)
                 /\ Shown(PurchaseAnomaly("current_not_received"), i))

\* a finished purchase run with one order dated on the first day of the
\* period in current_not_invoiced and one dated the day before in
\* prior_not_invoiced
C3_Witness ==
    /\ PurchasesDone
    /\ PeriodGiven
    /\ \E i \in DOMAIN purchases_data :
          /\ ActiveAuthorisedOn(purchases_data[i], DayOf(purchase_date(purchases_data[i])),
                                PeriodStartOrdinal)
          /\ Shown(PurchaseAnomaly("current_not_invoiced"), i)
    /\ \E i \in DOMAIN purchases_data :
          /\ ActiveAuthorisedOn(purchases_data[i], DayOf(purchase_date(purchases_data[i])),
                                PeriodStartOrdinal - 1)
          /\ Shown(PurchaseAnomaly("prior_not_invoiced"), i)

\* the purchase order of the IsServiceOnly exception, active on the run date
ServiceGateOrder(p) ==
    /\ p.Status = "ORDERED"
    /\ p.CombinedReceivingStatus = "NOT RECEIVED"
    /\ p.OrderStatus = "AUTHORISED"
    /\ p.CombinedInvoiceStatus = "NOT INVOICED"
    /\ DayFromCutoff(DayOf(purchase_date(p)), today)

\* C4: IsServiceOnly exception. Over a pull of active purchase orders with
\* Status=ORDERED, CombinedReceivingStatus=NOT RECEIVED, OrderStatus=AUTHORISED
\* and CombinedInvoiceStatus=NOT INVOICED, the billing count is the number of
\* orders whose IsServiceOnly flag is true: each of those is counted and none
\* of the others is.
C4_ServiceOnlyBilling ==
    (PurchasesDone /\ \A i \in DOMAIN purchases_data : ServiceGateOrder(purchases_data[i]))
        => metrics.purchases.status_counts.billing
               = CountWhere(purchases_data, LAMBDA p : p.IsServiceOnly)

FulfilledNotInvoiced == metrics.sales.anomalies["fulfilled_not_invoiced"]

\* the run of end-to-end scenario 1 has finished
Scenario1Done ==
    /\ SalesDone
    /\ sales_data = Numbered(Scenario1)
    /\ report_year = 2024 /\ report_month = 2

\* C7 as stated: on every run date, scenario 1 for report period (2024, 2)
\* gives fulfilled_not_invoiced count 1, holding only A.
C7_Scenario1AnyRunDate ==
    Scenario1Done =>
        /\ FulfilledNotInvoiced.count = 1
        /\ FulfilledNotInvoiced.records = <<sales_data[1]>>

\* C7: scenario 1 for report period (2024, 2) gives fulfilled_not_invoiced
\* count 1, holding only A, when the run date is at most 365 days after A's
\* date 2024-01-10; on a later run date A is inactive and the bucket is empty.
C7_Scenario1 ==
    Scenario1Done =>
        IF OrdinalOf(today) - toordinal(2024, 1, 10) <= ActivityDays
        THEN /\ FulfilledNotInvoiced.count = 1
             /\ FulfilledNotInvoiced.records = <<sales_data[1]>>
        ELSE /\ FulfilledNotInvoiced.count = 0
             /\ FulfilledNotInvoiced.records = <<>>

\* scenario 1 run 365 days after A's date: the bucket holds A
C7_Witness ==
    /\ Scenario1Done
    /\ OrdinalOf(today) - toordinal(2024, 1, 10) = ActivityDays
    /\ FulfilledNotInvoiced.count = 1

\* C8: period calculation. A finished run for (2024, 2) used the period
\* start "2024-02-01", and a run whose report month is outside 1..12 ends
\* with the period error: it returns no metrics.
C8_InvalidPeriod ==
    /\ (pc # "start" /\ report_year = 2024 /\ report_month = 2) =>
          PeriodStart(report_year, report_month, today)
              = <<50, 48, 50, 52, Dash, 48, 50, Dash, 48, 49>>
    /\ (pc # "start" /\ report_month \notin 1..12) =>
          /\ pc = "failed"
          /\ err = "ValueError"
          /\ metrics = NoMetrics

\* C2: count consistency. For every anomaly bucket of a finished sales or
\* purchases run, count is the number of active records of the pull that
\* satisfy the bucket's predicate, also when more than ten records match.
C2_CountConsistency ==
    /\ SalesDone =>
          \A b \in SalesAnomalyNames :
              metrics.sales.anomalies[b].count
                  = Cardinality({i \in DOMAIN sales_data :
                        /\ ~ExcludedSale(sales_data[i], today)
                        /\ SaleAnomalyTest(b, sales_data[i],
                               PeriodStart(report_year, report_month, today))})
    /\ PurchasesDone =>
          \A b \in PurchaseAnomalyNames :
              metrics.purchases.anomalies[b].count
                  = Cardinality({i \in DOMAIN purchases_data :
                        /\ ~ExcludedPurchase(purchases_data[i], today)
                        /\ PurchaseAnomalyTest(b, purchases_data[i],
                               PeriodStart(report_year, report_month, today))})

\* a finished sales run with a bucket that counts more records than it shows
C2_Witness ==
    /\ SalesDone
    /\ \E b \in SalesAnomalyNames :
          /\ metrics.sales.anomalies[b].count > DisplayCap
          /\ Len(metrics.sales.anomalies[b].records) = DisplayCap

\* two oldest entries name the same date and age
SameOldest(a, b) ==
    IF a = None \/ b = None THEN a = b
    ELSE a.date = b.date /\ a.age_days = b.age_days

\* the rerun returns the counts and the oldest entries of the first run
SameResult(m, r, names) ==
    /\ ~IsRaise(r)
    /\ m.status_counts = r.status_counts
    /\ \A b \in names :
          /\ m.anomalies[b].count = r.anomalies[b].count
          /\ SameOldest(m.anomalies[b].oldest, r.anomalies[b].oldest)
    /\ DOMAIN m.oldest_by_status = DOMAIN r.oldest_by_status
    /\ \A st \in DOMAIN m.oldest_by_status \cap DOMAIN r.oldest_by_status :
          /\ m.oldest_by_status[st].date = r.oldest_by_status[st].date
          /\ m.oldest_by_status[st].age_days = r.oldest_by_status[st].age_days

\* C5: order independence. The run on a reordered pull returns the status
\* counts, the anomaly bucket counts and the oldest date and age of every
\* bucket and every status that the run on the original pull returned.
C5_OrderIndependence ==
    pc = "rerun" =>
        /\ metrics.sales # Unset => SameResult(metrics.sales, rerun, SalesAnomalyNames)
        /\ metrics.purchases # Unset =>
              SameResult(metrics.purchases, rerun, PurchaseAnomalyNames)

\* C6: totality over malformed records. A stock run over records with
\* missing, null or wrong-typed fields ends with a result and raises nothing.
C6_NeverRaises == pc # "start" => pc = "done" /\ err = "none"

AvailabilityDone == pc = "done" /\ metrics.stock_availability # Unset

\* the quantity a record states, 0 when it states none
Stated(v) == IF v = Missing THEN 0 ELSE v.n

StatesNegative(item) == Stated(item.OnHand) < 0 \/ Stated(item.Available) < 0

\* the negative_stock entry of an availability record
StockEntry(item) ==
    [sku |-> IF item.SKU = MissingKey THEN "Unknown" ELSE item.SKU,
     name |-> item.Name,
     location |-> IF item.Location = MissingKey THEN "Unknown" ELSE item.Location,
     on_hand |-> Stated(item.OnHand),
     available |-> Stated(item.Available)]

\* C9: negative stock. In a finished process_stock_availability run every
\* entry of negative_stock appears as often as there are input records with
\* that entry and OnHand < 0 or Available < 0, so such a record is appended
\* once, also when both are negative, and no other record is appended;
\* total_negative_items is the number of those records; and total_on_hand of
\* a location is the sum of the OnHand of its records.
C9_NegativeStock ==
    AvailabilityDone =>
        /\ \A e \in {StockEntry(availability_data[i]) : i \in DOMAIN availability_data}
                      \cup {metrics.stock_availability.negative_stock[j] :
                               j \in DOMAIN metrics.stock_availability.negative_stock} :
              Cardinality({j \in DOMAIN metrics.stock_availability.negative_stock :
                              metrics.stock_availability.negative_stock[j] = e})
                  = Cardinality({i \in DOMAIN availability_data :
                                    /\ StockEntry(availability_data[i]) = e
                                    /\ StatesNegative(availability_data[i])})
        /\ metrics.stock_availability.summary.total_negative_items
              = Cardinality({i \in DOMAIN availability_data :
                                StatesNegative(availability_data[i])})
        /\ \A i \in DOMAIN availability_data :
              StockEntry(availability_data[i]).location
                  \in DOMAIN metrics.stock_availability.by_location
        /\ \A loc \in DOMAIN metrics.stock_availability.by_location :
              metrics.stock_availability.by_location[loc].total_on_hand
                  = SumOver([i \in DOMAIN availability_data |->
                                Stated(availability_data[i].OnHand)],
                            {i \in DOMAIN availability_data :
                                StockEntry(availability_data[i]).location = loc})

\* a finished run over one record with OnHand -5 and Available -3: it is
\* listed once and its location's total_on_hand is -5
C9_Witness ==
    /\ AvailabilityDone
    /\ Len(availability_data) = 1
    /\ availability_data[1].OnHand = Num(-5)
    /\ availability_data[1].Available = Num(-3)
    /\ Len(metrics.stock_availability.negative_stock) = 1
    /\ \E loc \in DOMAIN metrics.stock_availability.by_location :
          metrics.stock_availability.by_location[loc].total_on_hand = -5

AdjustmentsDone == pc = "done" /\ metrics.stock_adjustments # Unset

\* the text holds the lower-case word at position i in any mix of cases
MentionsAt(text, word, i) ==
    \A k \in 1..Len(word) : text[i + k - 1] \in {word[k], word[k] - 32}

Mentions(text, word) ==
    \E i \in 1..(Len(text) - Len(word) + 1) : MentionsAt(text, word, i)

\* no line of the top list names packaging or a consumable
NoneExcluded(top) ==
    \A j \in DOMAIN top :
        /\ ~Mentions(top[j].name.s, Packaging)
        /\ ~Mentions(top[j].name.s, Consumable)

\* C10: packaging/consumable exclusion. In a finished
\* process_stock_adjustments run no line whose product name contains
\* "packaging" or "consumable" in any mix of cases is in top_qty_in,
\* top_qty_out, top_cost_in or top_cost_out; and for the lines [Packaging Tape
\* +500, Widget +300, Widget -200] top_qty_in is exactly [Widget 300] and
\* top_qty_out is exactly [Widget -200].
C10_PackagingExclusion ==
    AdjustmentsDone =>
        /\ NoneExcluded(metrics.stock_adjustments.top_qty_in)
        /\ NoneExcluded(metrics.stock_adjustments.top_qty_out)
        /\ NoneExcluded(metrics.stock_adjustments.top_cost_in)
        /\ NoneExcluded(metrics.stock_adjustments.top_cost_out)
        /\ adjustment_details = <<Detail("Main", List(Scenario3), Missing)>> =>
              /\ Len(metrics.stock_adjustments.top_qty_in) = 1
              /\ metrics.stock_adjustments.top_qty_in[1].name = Str(Widget)
              /\ metrics.stock_adjustments.top_qty_in[1].quantity = 300
              /\ Len(metrics.stock_adjustments.top_qty_out) = 1
              /\ metrics.stock_adjustments.top_qty_out[1].name = Str(Widget)
              /\ metrics.stock_adjustments.top_qty_out[1].quantity = -200

\* the finished run of scenario 3: Packaging Tape +500 is the largest
\* quantity in and top_qty_in holds the Widget line only
C10_Witness ==
    /\ AdjustmentsDone
    /\ adjustment_details = <<Detail("Main", List(Scenario3), Missing)>>
    /\ metrics.stock_adjustments.summary.total_line_items = 3
    /\ Len(metrics.stock_adjustments.top_qty_in) = 1
    /\ metrics.stock_adjustments.top_qty_in[1].quantity = 300

CrossAnomalyNames == {"fully_invoiced_not_received", "fully_received_not_invoiced"}

\* the date field of the order is absent, null, empty or names no day
HasNoDay(p) == ~DayOf(purchase_date(p)).ok

\* C11: missing or unparseable dates. In a finished purchases run a
\* non-terminal purchase order whose OrderDate is missing or unparseable and
\* which satisfies fully_invoiced_not_received or fully_received_not_invoiced
\* is counted and shown in that bucket, and is not the bucket's oldest record.
C11_UndatedStillCounted ==
    PurchasesDone =>
        \A b \in CrossAnomalyNames :
            \A i \in DOMAIN purchases_data :
                (/\ purchases_data[i].Status \notin {"COMPLETED", "VOIDED"}
                 /\ HasNoDay(purchases_data[i])
                 /\ PurchaseAnomalyTest(b, purchases_data[i],
                        PeriodStart(report_year, report_month, today)))
                    => /\ Shown(PurchaseAnomaly(b), i)
                       /\ PurchaseAnomaly(b).count >= 1
                       /\ PurchaseAnomaly(b).oldest # None =>
                             PurchaseAnomaly(b).oldest.record.OrderNumber # i

-----------------------------------------------------------------------------
(***************************************************************************)
(* The Load Data handler.                                                  *)
(***************************************************************************)

\* the metrics entries a requested section gives
ExpectedKeys(s) ==
    CASE s = "assemblies" -> {"assemblies", "production"}
      [] s = "stock_per_location" -> {"stock_availability"}
      [] OTHER -> {s}

\* the run ended because a client call of the block at the handler's position raised
FetchFailed == pc = "failed" /\ err = "Cin7APIError"

\* C12: when the fetch of one selected domain fails with an upstream error during a
\* Load Data run, every other selected domain, before or after it in the load
\* order, still has its metrics stored, and only the failing domain's entry is
\* absent.
C12_DomainIndependence ==
    FetchFailed =>
        /\ \A s \in sections \ {LoadOrder[at]} : ExpectedKeys(s) \subseteq session.metrics
        /\ ExpectedKeys(LoadOrder[at]) \cap session.metrics = {}

-----------------------------------------------------------------------------
(***************************************************************************)
(* The API client.                                                         *)
(***************************************************************************)

\* every record the endpoint holds, in the order it serves them
AllServed == [i \in 1..server.count |-> i]

\* C13: for both response shapes (a bare list, a mapping with Total and one data
\* list), whatever the number of full pages before the shorter or empty last page,
\* _paginate returns the records of all pages in page order, none skipped and
\* none duplicated.
C13_PaginationComplete ==
    (pc = "returned" /\ paging # Unset) => returned = AllServed

Transient == {429, 500, 503}

Fatal == {400, 403, 404}

\* the response of the latest attempt
LastStatus == request.received[Len(request.received)]

Attempted == request # Unset /\ request.received # <<>>

\* C14: a 429, 500 or 503 response is retried while retries are left, and raises
\* Cin7APIError only once MAX_RETRIES = 3 retries are used up; a 400, 403 or 404
\* response raises Cin7APIError at once; a 200 response at any attempt returns the
\* body and ends the call.
C14_RetryPolicy ==
    Attempted =>
        /\ request.retry_count <= MAX_RETRIES
        /\ LastStatus \in Transient =>
              IF Len(request.received) <= MAX_RETRIES
              THEN pc = "request" /\ request.retry_count = Len(request.received)
              ELSE pc = "raised" /\ err = "Cin7APIError"
                   /\ request.retry_count = MAX_RETRIES
        /\ LastStatus \in Fatal => pc = "raised" /\ err = "Cin7APIError"
        /\ LastStatus = 200 => pc = "returned" /\ returned = Body
        /\ pc = "returned" => LastStatus = 200

\* three transient answers are retried and the fourth ends the call
C14_Witness ==
    /\ pc = "raised"
    /\ request.received = <<429, 500, 503, 429>>

-----------------------------------------------------------------------------
(***************************************************************************)
(* get_oldest_date.                                                        *)
(***************************************************************************)

OldestReturned == pc = "done" /\ returned # Unset /\ request = Unset /\ paging = Unset

\* the parsed date of the record at position i
DateAt(i) == DayOf(purchases_data[i].OrderDate)

\* the parsed date a is an earlier instant than b
Before(a, b) ==
    \/ OrdinalOf(a) < OrdinalOf(b)
    \/ OrdinalOf(a) = OrdinalOf(b) /\ a.sec < b.sec

\* positions of the records whose date field parses
Parseable == {i \in DOMAIN purchases_data : DateAt(i).ok}

\* C15: get_oldest_date returns the record with the minimum parsed date among the
\* records whose date field parses; of several records sharing that minimum it
\* returns the first in list order; it returns None exactly when no record has a
\* parseable date.
C15_OldestOfBucket ==
    OldestReturned =>
        /\ returned = None <=> Parseable = {}
        /\ returned # None =>
              /\ returned.record.OrderNumber \in Parseable
              /\ returned.record = purchases_data[returned.record.OrderNumber]
              /\ returned.date =
                    isoformat(DateAt(returned.record.OrderNumber).y,
                              DateAt(returned.record.OrderNumber).m,
                              DateAt(returned.record.OrderNumber).d)
              /\ \A j \in Parseable :
                    /\ ~Before(DateAt(j), DateAt(returned.record.OrderNumber))
                    /\ j < returned.record.OrderNumber =>
                          Before(DateAt(returned.record.OrderNumber), DateAt(j))

\* an unparseable record, then two records sharing the minimum, then a later one:
\* the second record is returned
C15_Witness ==
    /\ OldestReturned
    /\ Len(purchases_data) = 3
    /\ purchases_data[1].OrderDate = NotADate
    /\ purchases_data[2].OrderDate = Day(2024, 1, 10)
    /\ purchases_data[3].OrderDate = DayTime(2024, 1, 10, 0, 0, 0)
    /\ returned.record.OrderNumber = 2

-----------------------------------------------------------------------------
(***************************************************************************)
(* The records an anomaly bucket shows.                                    *)
(***************************************************************************)

\* positions of the active sales that satisfy the predicate of bucket b
MatchingSales(b) ==
    {i \in DOMAIN sales_data :
        /\ ~ExcludedSale(sales_data[i], today)
        /\ SaleAnomalyTest(b, sales_data[i], PeriodStart(report_year, report_month, today))}

MatchingPurchases(b) ==
    {i \in DOMAIN purchases_data :
        /\ ~ExcludedPurchase(purchases_data[i], today)
        /\ PurchaseAnomalyTest(b, purchases_data[i],
                               PeriodStart(report_year, report_month, today))}

\* records is the first min(count, DisplayCap) records of the pull at the positions
\* of matching, in the order of the pull
FirstMatching(bucket, matching, pull) ==
    /\ Len(bucket.records) <= DisplayCap
    /\ Len(bucket.records)
          = (IF Cardinality(matching) < DisplayCap THEN Cardinality(matching) ELSE DisplayCap)
    /\ \A j \in DOMAIN bucket.records :
          /\ bucket.records[j].OrderNumber \in matching
          /\ bucket.records[j] = pull[bucket.records[j].OrderNumber]
          /\ Cardinality({i \in matching : i <= bucket.records[j].OrderNumber}) = j

\* C16: display cap. In every anomaly bucket of process_sales_metrics and of
\* process_purchase_metrics, records holds at most 10 records and is the first
\* min(count, 10) active records matching the bucket's predicate, in the order of
\* the input list.
C16_DisplayCap ==
    /\ SalesDone =>
          \A b \in SalesAnomalyNames :
              FirstMatching(metrics.sales.anomalies[b], MatchingSales(b), sales_data)
    /\ PurchasesDone =>
          \A b \in PurchaseAnomalyNames :
              FirstMatching(metrics.purchases.anomalies[b], MatchingPurchases(b),
                            purchases_data)

\* a bucket matched by eleven of the twelve orders of the pull shows the first ten
C16_Witness ==
    /\ PurchasesDone
    /\ Len(purchases_data) = DisplayCap + 2
    /\ \E b \in PurchaseAnomalyNames :
          /\ Cardinality(MatchingPurchases(b)) = DisplayCap + 1
          /\ Len(metrics.purchases.anomalies[b].records) = DisplayCap
          /\ metrics.purchases.anomalies[b].records[DisplayCap].OrderNumber = DisplayCap

-----------------------------------------------------------------------------
(***************************************************************************)
(* The report period and the cross anomalies.                              *)
(***************************************************************************)

\* both runs returned
PeriodsCompared == pc = "rerun" /\ metrics.purchases # Unset /\ ~IsRaise(rerun)

\* C17: cross anomalies are not period-gated. For a fixed purchase list and run
\* date, two runs that differ only in the report period agree on the count, the
\* records and the oldest entry of fully_invoiced_not_received and of
\* fully_received_not_invoiced.
C17_CrossNotPeriodGated ==
    PeriodsCompared =>
        \A b \in CrossAnomalyNames :
            /\ rerun.anomalies[b].count = metrics.purchases.anomalies[b].count
            /\ rerun.anomalies[b].records = metrics.purchases.anomalies[b].records
            /\ rerun.anomalies[b].oldest = metrics.purchases.anomalies[b].oldest

\* the two periods place an order differently, prior to one and current to the
\* other, and the order is fully invoiced and not received in both runs
C17_Witness ==
    /\ PeriodsCompared
    /\ metrics.purchases.anomalies.prior_not_received.count = 1
    /\ rerun.anomalies.prior_not_received.count = 0
    /\ rerun.anomalies.current_not_received.count = 1
    /\ rerun.anomalies.fully_invoiced_not_received.count = 1

-----------------------------------------------------------------------------
(***************************************************************************)
(* Summaries and data hygiene.                                             *)
(***************************************************************************)

HygieneDone == pc = "done" /\ returned.k = "metrics"

\* C18: summary flags. has_anomalies of process_sales_metrics and of
\* process_purchase_metrics is true if and only if some anomaly bucket has a count
\* above 0; has_negative_stock of process_stock_availability is true iff
\* negative_stock is not empty; total_issues of process_data_hygiene is the sum of
\* the lengths of the nine issue lists.
C18_SummaryFlags ==
    /\ SalesDone =>
          (metrics.sales.summary.has_anomalies
              <=> \E b \in DOMAIN metrics.sales.anomalies :
                     metrics.sales.anomalies[b].count > 0)
    /\ PurchasesDone =>
          (metrics.purchases.summary.has_anomalies
              <=> \E b \in DOMAIN metrics.purchases.anomalies :
                     metrics.purchases.anomalies[b].count > 0)
    /\ AvailabilityDone =>
          (metrics.stock_availability.summary.has_negative_stock
              <=> metrics.stock_availability.negative_stock # <<>>)
    /\ HygieneDone =>
          returned.summary.total_issues
              = Len(returned.products.no_price) + Len(returned.products.no_barcode)
                + Len(returned.customers.missing_email)
                + Len(returned.customers.missing_phone)
                + Len(returned.customers.missing_payment_terms)
                + Len(returned.customers.on_credit_hold)
                + Len(returned.suppliers.missing_email)
                + Len(returned.suppliers.missing_phone)
                + Len(returned.suppliers.missing_payment_terms)

\* a hygiene check with a product issue, a customer on credit hold and a supplier
\* issue
C18_Witness ==
    /\ HygieneDone
    /\ Len(returned.products.no_price) = 1
    /\ Len(returned.customers.on_credit_hold) = 1
    /\ Len(returned.suppliers.missing_phone) = 1
    /\ returned.summary.total_issues > 3

\* the contact sub-records of a party, none when it has no Contacts list
ContactRecords(party) ==
    IF party.Contacts.k = "list" THEN party.Contacts.items ELSE <<>>

\* the field is absent, null or empty
Lacks(v) == v \in {Missing, None, Str(<<>>)}

\* the issue list names the party
Listed(issues, party) == \E j \in DOMAIN issues : issues[j].name = party.Name

\* the party is listed under missing_email and missing_phone as its contacts say
ContactsReported(issues, party) ==
    /\ Listed(issues.missing_email, party)
          <=> \A i \in DOMAIN ContactRecords(party) : Lacks(ContactRecords(party)[i].Email)
    /\ Listed(issues.missing_phone, party)
          <=> \A i \in DOMAIN ContactRecords(party) :
                 /\ Lacks(ContactRecords(party)[i].Phone)
                 /\ Lacks(ContactRecords(party)[i].MobilePhone)

\* C19: contact hygiene. process_data_hygiene lists a customer or a supplier under
\* missing_email iff every one of its contacts lacks an Email, a party without
\* contacts included, and under missing_phone iff every contact lacks both Phone
\* and MobilePhone; one contact carrying the field keeps the party out of the list.
C19_ContactHygiene ==
    HygieneDone =>
        /\ \A i \in DOMAIN masters.customers :
              ContactsReported(returned.customers, masters.customers[i])
        /\ \A i \in DOMAIN masters.suppliers :
              ContactsReported(returned.suppliers, masters.suppliers[i])

\* a supplier whose second contact alone carries a number, a mobile one, and whose
\* contacts carry no Email
C19_Witness ==
    /\ HygieneDone
    /\ \E i \in DOMAIN masters.suppliers :
          /\ masters.suppliers[i].Contacts
                = List(<<Contact(Str(<<>>), None, Missing), Contact(None, Str(<<>>), Number)>>)
          /\ Listed(returned.suppliers.missing_email, masters.suppliers[i])
          /\ ~Listed(returned.suppliers.missing_phone, masters.suppliers[i])

-----------------------------------------------------------------------------
(***************************************************************************)
(* The domains of a finished load and of the PDF.                          *)
(***************************************************************************)

\* the run reached the end of the load sequence
LoadCompleted == pc = "done" /\ runs > 0

PdfBuilt == runs > 0 /\ pdf # NoPdf

\* C20: domain subsets. After a Load Data run that completes, the metrics hold the
\* entries of a section (both assemblies and production for the assemblies
\* section, stock_availability for stock_per_location) iff the section was
\* requested, and sync_errors iff a file was uploaded; the PDF builder renders a
\* section only when it is both requested and present in the metrics.
C20_DomainSubsets ==
    /\ LoadCompleted =>
          /\ \A s \in Sections :
                /\ s \in sections => ExpectedKeys(s) \subseteq session.metrics
                /\ s \notin sections => ExpectedKeys(s) \cap session.metrics = {}
          /\ "sync_errors" \in session.metrics <=> sync_file
          /\ session.metrics \subseteq
                UNION {ExpectedKeys(s) : s \in Sections} \cup {"sync_errors"}
    /\ PdfBuilt =>
          \A s \in pdf.rendered :
              IF s = "sync_errors"
              THEN "sync_errors" \in session.metrics
              ELSE /\ s \in pdf.sections_included
                   /\ ExpectedKeys(s) \subseteq session.metrics

\* a completed run for the assemblies section and an uploaded file, then a PDF
\* asked for with every section ticked: the sections that were not loaded are left out
C20_Witness ==
    /\ LoadCompleted
    /\ sections = {"assemblies"}
    /\ sync_file
    /\ session.metrics = {"assemblies", "production", "sync_errors"}
    /\ pdf.sections_included = Sections
    /\ pdf.rendered = {"assemblies", "sync_errors"}

-----------------------------------------------------------------------------
(***************************************************************************)
(* Properties of the oldest-by-status maps.                                *)
(***************************************************************************)

\* the status values that occur among the active records of the pull
ActiveSaleStatuses ==
    LET active == ActiveSales(sales_data, today)
    IN  {SaleStatusKey(active[i]) : i \in 1..Len(active)}
ActivePurchaseStatuses ==
    LET active == ActivePurchases(purchases_data, today)
    IN  {PurchaseStatusKey(active[i]) : i \in 1..Len(active)}

\* C21: oldest_by_status completeness. In a finished sales run and in a
\* finished purchases run the oldest_by_status map has exactly one entry for
\* each distinct status value that occurs among the active records.
C21_OldestByStatusComplete ==
    /\ SalesDone => DOMAIN metrics.sales.oldest_by_status = ActiveSaleStatuses
    /\ PurchasesDone => DOMAIN metrics.purchases.oldest_by_status = ActivePurchaseStatuses

-----------------------------------------------------------------------------
(***************************************************************************)
(* Properties of the top lists of the stock adjustments.                   *)
(***************************************************************************)

\* the lines of the pull that name neither packaging nor a consumable
ReportableLines ==
    SelectSeq(AllLines(adjustment_details),
              LAMBDA l : ~Mentions(l.name.s, Packaging) /\ ~Mentions(l.name.s, Consumable))

\* top holds amounts of the sign only, largest magnitude first, and as many
\* amounts above any magnitude as the lines of that sign have, up to five
RankedAmounts(top, amounts, sign) ==
    /\ Len(top) <= 5
    /\ \A j \in 1..Len(top) : top[j] * sign > 0
    /\ \A j \in 1..(Len(top) - 1) : Abs(top[j]) >= Abs(top[j + 1])
    /\ \A m \in {0} \cup {Abs(amounts[i]) : i \in 1..Len(amounts)} :
           Cardinality({j \in 1..Len(top) : Abs(top[j]) > m})
               = Min({5, Cardinality({i \in 1..Len(amounts) :
                                        amounts[i] * sign > 0 /\ Abs(amounts[i]) > m})})

\* the top list ranks the reportable lines by quantity
RankedByQuantity(top, lines, sign) ==
    /\ \A j \in 1..Len(top) : \E i \in 1..Len(lines) : top[j] = lines[i]
    /\ RankedAmounts([j \in 1..Len(top) |-> top[j].quantity],
                     [i \in 1..Len(lines) |-> lines[i].quantity], sign)

\* the top list ranks the reportable lines by cost impact
RankedByCost(top, lines, sign) ==
    /\ \A j \in 1..Len(top) : \E i \in 1..Len(lines) : top[j] = lines[i]
    /\ RankedAmounts([j \in 1..Len(top) |-> top[j].total_cost],
                     [i \in 1..Len(lines) |-> lines[i].total_cost], sign)

\* C22: top-5 ranking. In a finished process_stock_adjustments run each of
\* top_qty_in, top_qty_out, top_cost_in and top_cost_out has at most 5 entries;
\* top_qty_in holds only lines with quantity > 0 and top_qty_out only lines
\* with quantity < 0, likewise with total_cost for the cost lists; each list
\* is sorted by descending magnitude, and no reportable line of the list's
\* sign that is left out has a larger magnitude than a line in the list.
C22_TopFive ==
    AdjustmentsDone =>
        /\ RankedByQuantity(metrics.stock_adjustments.top_qty_in, ReportableLines, 1)
        /\ RankedByQuantity(metrics.stock_adjustments.top_qty_out, ReportableLines, -1)
        /\ RankedByCost(metrics.stock_adjustments.top_cost_in, ReportableLines, 1)
        /\ RankedByCost(metrics.stock_adjustments.top_cost_out, ReportableLines, -1)

\* the finished run on six increases and six decreases: each list holds five
\* lines, the increase of 110 leads by quantity and is left out by cost
C22_Witness ==
    /\ AdjustmentsDone
    /\ adjustment_details = <<Detail("Main", List(TwelveLines), Missing)>>
    /\ Len(metrics.stock_adjustments.top_qty_in) = 5
    /\ Len(metrics.stock_adjustments.top_qty_out) = 5
    /\ metrics.stock_adjustments.top_qty_in[1].quantity = 110
    /\ metrics.stock_adjustments.top_qty_in[5].quantity = 30
    /\ metrics.stock_adjustments.top_cost_in[1].total_cost = 420
    /\ metrics.stock_adjustments.top_cost_in[5].total_cost = 120
    /\ metrics.stock_adjustments.top_qty_out[1].quantity = -60
    /\ metrics.stock_adjustments.top_cost_out[5].total_cost = -110

-----------------------------------------------------------------------------
(***************************************************************************)
(* The reporting-period window the Load Data handler applies to the stock  *)
(* adjustment and stock take summaries before it fetches their details.    *)
(***************************************************************************)

\* period_end: the first day of the month after the report month
PeriodEnd(ry, rm) ==
    IF rm = 12 THEN isoformat(ry + 1, 1, 1) ELSE isoformat(ry, rm + 1, 1)

\* a.get('EffectiveDate') or a.get('Date') or ''
RecordDate(a) == Or(Or(Get(a.EffectiveDate), Get(a.Date)), Str(<<>>))

\* a window closed at its end
InPeriodInclusive(a, period_start, period_end) ==
    /\ ~StrLess(Take(RecordDate(a).s, 10), period_start)
    /\ ~StrLess(period_end, Take(RecordDate(a).s, 10))

\* period_start <= (...)[:10] < period_end
InPeriod(a, period_start, period_end) ==
    /\ ~StrLess(Take(RecordDate(a).s, 10), period_start)
    /\ StrLess(Take(RecordDate(a).s, 10), period_end)

\* period_adjs and period_takes; slicing a number raises TypeError
PeriodRecords(records, ry, rm) ==
    IF \E i \in 1..Len(records) : RecordDate(records[i]).k # "str"
    THEN Raise("TypeError")
    ELSE List(SelectSeq(records,
                        LAMBDA a : InPeriod(a, isoformat(ry, rm, 1), PeriodEnd(ry, rm))))

\* the filter of the stock adjustments block and of the stock takes block
FilterPeriod ==
    /\ pc = "start"
    /\ server.k = "summaries"
    /\ Return(PeriodRecords(server.records, report_year, report_month))
    /\ UNCHANGED <<classified, load, http, masters>>

\* <<EffectiveDate, Date>> of a summary
SummaryDates ==
    {<<Day(2024, 2, 1), Missing>>,
     <<DayTime(2024, 2, 29, 23, 59, 59), Missing>>,
     <<Day(2024, 3, 1), Day(2024, 2, 10)>>,
     <<Missing, Day(2024, 2, 15)>>,
     <<Str(<<>>), DayTimeZ(2024, 12, 31, 23, 59, 59)>>,
     <<None, Day(2025, 1, 1)>>,
     <<Day(2024, 12, 1), Missing>>,
     <<Day(2024, 11, 30), Day(2024, 12, 5)>>,
     <<Day(2024, 1, 31), Day(2024, 2, 2)>>,
     <<Day(2025, 1, 31), None>>,
     <<Day(2025, 2, 1), Missing>>,
     <<Missing, Missing>>,
     <<None, Str(<<>>)>>,
     <<NotADate, Day(2024, 2, 10)>>,
     <<Day(2024, 2, 30), Missing>>,
     <<Num(20240210), Missing>>}

\* the report periods the sidebar offers: a month from 1 to 12 of a year
WindowPeriods == {<<2024, 1>>, <<2024, 2>>, <<2024, 12>>, <<2025, 1>>}

\* longest list of summaries
MaxSummaries == 2

\* TaskID is the position in the list the server returns
SummaryLists ==
    {[i \in 1..Len(l) |-> [TaskID |-> i, EffectiveDate |-> l[i][1], Date |-> l[i][2]]] :
        l \in SeqsUpTo(SummaryDates, MaxSummaries)}

InitWindow ==
    /\ today = BulkToday
    /\ \E p \in WindowPeriods : report_year = p[1] /\ report_month = p[2]
    /\ NoOrders
    /\ NoStock
    /\ pc = "start"
    /\ metrics = NoMetrics
    /\ err = "none"
    /\ rerun = Unset
    /\ NoLoad
    /\ \E l \in SummaryLists : server = [k |-> "summaries", records |-> l]
    /\ paging = Unset
    /\ request = Unset
    /\ masters = NoMasters
    /\ returned = Unset

NextWindow == FilterPeriod

SpecWindow == InitWindow /\ [][NextWindow]_vars

\* the filter returned
WindowDone == pc = "done" /\ server.k = "summaries" /\ returned.k = "list"

\* the day the first ten characters of the summary's date name: EffectiveDate,
\* or Date when EffectiveDate is absent, null or empty
SummaryDay(a) ==
    LET text == IF a.EffectiveDate.k = "str" /\ a.EffectiveDate.s # <<>>
                THEN a.EffectiveDate ELSE a.Date
    IN  IF text.k = "str" THEN parse_date(Str(Take(text.s, 10))) ELSE NoDate

\* the summary carries neither date
Undated(a) ==
    /\ a.EffectiveDate \in {Missing, None, Str(<<>>)}
    /\ a.Date \in {Missing, None, Str(<<>>)}

\* the day lies in the report month
InReportMonth(day) == day.ok /\ day.y = report_year /\ day.m = report_month

\* the summary at position i of the server's list is passed on
PassedOn(i) == \E j \in 1..Len(returned.items) : returned.items[j].TaskID = i

\* C23: reporting-period window. Of the summaries the server returns, those
\* passed on are, in their order, exactly the ones whose EffectiveDate (or,
\* when that is absent or empty, Date) names in its first 10 characters a day
\* from the first day of the report month up to, not including, the first day
\* of the following month, which for December is 1 January of the next year;
\* summaries with neither date are left out.
C23_PeriodWindow ==
    WindowDone =>
        /\ \A j \in 1..Len(returned.items) :
              /\ returned.items[j].TaskID \in 1..Len(server.records)
              /\ returned.items[j] = server.records[returned.items[j].TaskID]
              /\ j > 1 => returned.items[j - 1].TaskID < returned.items[j].TaskID
        /\ \A i \in 1..Len(server.records) :
              /\ SummaryDay(server.records[i]).ok =>
                    (PassedOn(i) <=> InReportMonth(SummaryDay(server.records[i])))
              /\ Undated(server.records[i]) => ~PassedOn(i)

\* December: the summary of 31 December 23:59:59 is passed on and the one of
\* 1 January is not
C23_Witness ==
    /\ WindowDone
    /\ report_year = 2024 /\ report_month = 12
    /\ Len(server.records) = 2
    /\ server.records[1].Date = DayTimeZ(2024, 12, 31, 23, 59, 59)
    /\ server.records[2].Date = Day(2025, 1, 1)
    /\ Len(returned.items) = 1
    /\ returned.items[1].TaskID = 1

-----------------------------------------------------------------------------
(***************************************************************************)
(* Properties of the record date of a sale.                                *)
(***************************************************************************)

\* the day of the sale's best-available date: SaleOrderDate, else OrderDate
BestDay(s) == DayOf(sale_date(s))

\* the bucket's oldest record has the minimum best-available day of the bucket
OldestByBestDay(bucket) ==
    /\ bucket.oldest # None
    /\ \A i \in DOMAIN bucket.records :
          OrdinalOf(BestDay(bucket.oldest.record)) <= OrdinalOf(BestDay(bucket.records[i]))

\* C24: consistent record date for sales. In a finished sales run, for every
\* non-empty anomaly bucket whose records all have a parseable best-available
\* date (SaleOrderDate, else OrderDate), 'oldest' is the record with the
\* minimum best-available date, also when some records carry only
\* SaleOrderDate and others only OrderDate.
C24_ConsistentSaleDate ==
    SalesDone =>
        \A b \in SalesAnomalyNames :
            (/\ metrics.sales.anomalies[b].count > 0
             /\ \A i \in DOMAIN metrics.sales.anomalies[b].records :
                   BestDay(metrics.sales.anomalies[b].records[i]).ok)
                => OldestByBestDay(metrics.sales.anomalies[b])

-----------------------------------------------------------------------------
(***************************************************************************)
(* Properties of the session across Load Data runs.                        *)
(***************************************************************************)

\* the handler has returned from a run that got past the client's construction,
\* and the script draws the page
HandlerReturned == pc \in {"done", "failed"} /\ err # "ValueError"

\* C25: across any sequence of Load Data runs, successful or failing, whenever
\* the page is drawn with data_loaded true the metrics hold an entry for every
\* section requested in the most recent run; a run that fails part-way never
\* leaves data_loaded true with metrics that were reset and partly refilled.
C25_LoadedMeansComplete ==
    (HandlerReturned /\ session.data_loaded) =>
        \A s \in sections : ExpectedKeys(s) \subseteq session.metrics

\* the run ended because a request failed or because the processing of the data
\* it pulled raised
RequestOrDataFailed == pc = "failed" /\ err \in {"Cin7APIError", "Exception"}

\* C26: load liveness. For every selection of sections, stock_per_location
\* and data_hygiene included, a Load Data run whose client was built reaches
\* the end of the load sequence and sets data_loaded to true, unless a request
\* fails or the pulled data makes the processing raise; no run ends because a
\* client method was called with a parameter it does not accept.
C26_LoadLiveness ==
    [](pc = "loading" => <>((LoadCompleted /\ session.data_loaded) \/ RequestOrDataFailed))

-----------------------------------------------------------------------------
(***************************************************************************)
(* Properties of the prior/current split of the purchases.                 *)
(***************************************************************************)

\* the positions in the pull of the active AUTHORISED orders that pass the test
ActiveAuthorisedWhere(Test(_)) ==
    {i \in DOMAIN purchases_data :
        /\ PurchaseIsActive(purchases_data[i], Cutoff(today))
        /\ purchases_data[i].OrderStatus = "AUTHORISED"
        /\ Test(purchases_data[i])}

\* the two buckets split the orders: the counts add up and every order is
\* shown in exactly one of them
SplitsInTwo(prior, current, orders) ==
    /\ prior.count + current.count = Cardinality(orders)
    /\ \A i \in orders : Shown(prior, i) # Shown(current, i)
    /\ \A i \in DOMAIN purchases_data \ orders : ~Shown(prior, i) /\ ~Shown(current, i)

\* C27: prior/current partition completeness. In a finished purchases run
\* prior_not_invoiced.count + current_not_invoiced.count equals the number of
\* active AUTHORISED purchase orders whose CombinedInvoiceStatus is NOT
\* INVOICED or PARTIALLY INVOICED, the same holds for the not_received pair
\* with CombinedReceivingStatus NOT RECEIVED or PARTIALLY RECEIVED, and every
\* such order is in exactly one bucket of its pair.
C27_PartitionComplete ==
    PurchasesDone =>
        /\ SplitsInTwo(PurchaseAnomaly("prior_not_invoiced"),
                       PurchaseAnomaly("current_not_invoiced"),
                       ActiveAuthorisedWhere(
                           LAMBDA p : p.CombinedInvoiceStatus
                                          \in {"NOT INVOICED", "PARTIALLY INVOICED"}))
        /\ SplitsInTwo(PurchaseAnomaly("prior_not_received"),
                       PurchaseAnomaly("current_not_received"),
                       ActiveAuthorisedWhere(
                           LAMBDA p : p.CombinedReceivingStatus
                                          \in {"NOT RECEIVED", "PARTIALLY RECEIVED"}))

\* report period February 2024: an order of 31 January and an order of
\* 1 February, the first day of the period, neither invoiced nor received
C27_Witness ==
    /\ PurchasesDone
    /\ report_year = 2024 /\ report_month = 2
    /\ Len(purchases_data) = 2
    /\ purchases_data[1].OrderDate = Day(2024, 1, 31)
    /\ purchases_data[2].OrderDate = Day(2024, 2, 1)
    /\ PurchaseAnomaly("prior_not_invoiced").count = 1
    /\ Shown(PurchaseAnomaly("prior_not_invoiced"), 1)
    /\ PurchaseAnomaly("current_not_invoiced").count = 1
    /\ Shown(PurchaseAnomaly("current_not_invoiced"), 2)
    /\ PurchaseAnomaly("prior_not_received").count = 1
    /\ PurchaseAnomaly("current_not_received").count = 1

-----------------------------------------------------------------------------
(***************************************************************************)
(* Properties of one call of _make_request.                                *)
(***************************************************************************)

\* the call has returned a body or raised Cin7APIError
CallEnded ==
    \/ pc = "returned" /\ returned = Body
    \/ pc = "raised" /\ err = "Cin7APIError"

\* at most MAX_RETRIES + 1 requests are sent; every request before the last
\* one raised the one retry counter, whatever its failure was; a rate-limit wait
\* was made before every request
BoundedAttempts ==
    /\ request # Unset
    /\ Len(request.received) <= MAX_RETRIES + 1
    /\ request.waits = Len(request.received)
    /\ IF pc = "request"
       THEN request.retry_count = Len(request.received)
       ELSE CallEnded /\ request.retry_count = Len(request.received) - 1

\* C28: bounded attempts and termination of _make_request. For every sequence
\* of server responses and network failures, sequences that mix 429, 500/503
\* and connection errors included, one call sends at most MAX_RETRIES + 1 = 4
\* HTTP requests and then either returns a body or raises Cin7APIError; the
\* retry counter is shared by all failure kinds and never reset, and the
\* rate-limit wait is applied before every attempt, retries included.
C28_BoundedAttempts == []BoundedAttempts /\ <>CallEnded

\* a rate-limit answer, a connection error, a server error and a body that is no
\* JSON use up the four requests of one call
C28_Witness ==
    /\ pc = "raised"
    /\ err = "Cin7APIError"
    /\ request.received = <<429, NoResponse, 503, UndecodableBody>>
    /\ request.retry_count = MAX_RETRIES
    /\ request.waits = 4

-----------------------------------------------------------------------------
(***************************************************************************)
(* Properties of the activity cutoff.                                      *)
(***************************************************************************)

\* ordinal of the day today - 365 days
CutoffOrdinal == OrdinalOf(today) - ActivityDays

\* every record of the pull is dated on the cutoff day or on the day before;
\* days[i] is the day of record i
AtBoundary(days) ==
    /\ Len(days) > 0
    /\ \A i \in DOMAIN days :
          /\ days[i].ok
          /\ OrdinalOf(days[i]) \in {CutoffOrdinal - 1, CutoffOrdinal}

\* the non-terminal records of the pull dated on the cutoff day
OnCutoffDay(records, days) ==
    {i \in DOMAIN records :
        /\ records[i].Status \notin {"COMPLETED", "VOIDED"}
        /\ OrdinalOf(days[i]) = CutoffOrdinal}

\* the days of the sales and of the purchases of the pull
SaleDays == [i \in DOMAIN sales_data |-> DayOf(sale_date(sales_data[i]))]
PurchaseDays == [i \in DOMAIN purchases_data |-> DayOf(purchase_date(purchases_data[i]))]

\* C29: activity cutoff boundary. In a finished sales run and in a finished
\* purchases run a non-terminal record dated exactly today - 365 days is
\* active and one dated the day before is not, whether the date field is a
\* date-only text or a date-time text, with or without Z, of that day.
C29_CutoffBoundary ==
    /\ (SalesDone /\ AtBoundary(SaleDays)) =>
          metrics.sales.summary.active_sales
              = Cardinality(OnCutoffDay(sales_data, SaleDays))
    /\ (PurchasesDone /\ AtBoundary(PurchaseDays)) =>
          metrics.purchases.summary.active_purchases
              = Cardinality(OnCutoffDay(purchases_data, PurchaseDays))

\* run on 2025-01-09, cutoff 2024-01-10: of a sale of 10 January 2024 and a
\* sale of 9 January 2024 the first is active and the second is not
C29_Witness ==
    /\ SalesDone
    /\ today = Date(2025, 1, 9)
    /\ Len(sales_data) = 2
    /\ sales_data[1].OrderDate = Day(2024, 1, 10)
    /\ sales_data[2].OrderDate = Day(2024, 1, 9)
    /\ sales_data[1].Status \notin {"COMPLETED", "VOIDED"}
    /\ sales_data[2].Status \notin {"COMPLETED", "VOIDED"}
    /\ metrics.sales.summary.total_sales = 2
    /\ metrics.sales.summary.active_sales = 1

-----------------------------------------------------------------------------
(***************************************************************************)
(* Properties of the client's construction.                                *)
(***************************************************************************)

\* the step of a click whose Cin7APIClient(...) raises ValueError
FailsAtClient == runs' = runs + 1 /\ pc' = "failed" /\ err' = "ValueError"

\* C30: fatal authentication step. When a Load Data run fails at the client's
\* construction (missing account id or API key) no domain is fetched and the
\* session's client, metrics and data_loaded keep the values they had before
\* the run.
C30_FatalAuthentication ==
    [][FailsAtClient =>
          /\ session'.client = session.client
          /\ session'.metrics = session.metrics
          /\ session'.data_loaded = session.data_loaded
          /\ at' \notin DOMAIN LoadOrder]_vars

\* a second click without credentials, after a run that loaded the sales: the
\* page still shows the sales of the first run
C30_Witness ==
    /\ pc = "failed"
    /\ err = "ValueError"
    /\ runs = 2
    /\ at = 0
    /\ session = [client |-> "client", metrics |-> {"sales"}, data_loaded |-> TRUE,
                  products |-> FALSE]

====
